---- MODULE Spec2Model ----
(***************************************************************************)
(* A model of pltracker: the OAuth2 authorization flow, token store and    *)
(* ensure_access_token of auth_helper.py; the request wrapper, token       *)
(* refresh, paginated fetch, expense query and hierarchy builder of        *)
(* quickbooks_client.py; the subtree selection, project lookup by code and *)
(* expense summary of main.py.                                             *)
(* Each subsystem has its own specification over the shared variables.     *)
(***************************************************************************)
EXTENDS Integers, Sequences, FiniteSets, TLC

(* ------------------------------ bounds --------------------------------- *)

\* Largest small page size tried for max_results.
MaxPage == 3

\* Most page requests one fetch may issue in the model.
MaxPageRequests == 4

\* Longest flat project list.
MaxProjects == 4

\* Number of API requests whose answer the environment fixes in advance.
MaxApiCalls == 3

\* Most requests that reach the local listener during one authorization.
MaxRequests == 2

\* Most calls of authenticate(), over all program runs.
MaxRuns == 2

\* Most refresh_tokens() calls in a row.
MaxRefreshes == 3

\* Most ensure_access_token() calls in a row.
MaxEnsures == 2

\* Most _save_tokens() calls in a row.
MaxSaves == 2

\* Most Purchase records the backend holds.
MaxExpenses == 3

\* Longest project_ids list handed to get_project_expenses_summary.
MaxIds == 2

(* ------------------------- program constants --------------------------- *)

\* quickbooks_client.py: 'max_results': min(max_results, 1000)
PageCap == 1000

(* ------------------------------ helpers -------------------------------- *)

Min(a, b) == IF a < b THEN a ELSE b

Max(a, b) == IF a > b THEN a ELSE b

\* The list <<from, from + 1, ..., from + n - 1>>.
Range(from, n) == [i \in 1..n |-> from + i - 1]

VARIABLES
    \* ---- paginated fetch (get_projects / get_expenses) ----
    entity,          \* "Project" (get_projects) or "Purchase" (get_expenses)
    max_results,     \* the max_results argument
    backend,         \* number of records the backend holds, served as 1..backend
    start_position,  \* the cursor
    fetched,         \* the accumulated list (projects / expenses)
    page_requests,   \* number of _make_request calls issued by the loop
    fetch_pc,        \* "loop" while in the while-loop, "done" once returned
    last_response,   \* the last response the loop handled
    page_lens,       \* lengths of the pages received, in order
    error_at,        \* number of the page request that raised, 0 if none
    \* ---- project hierarchy and subtree selection ----
    flat,            \* the flat project list get_projects returned
    hierarchy,       \* what get_project_hierarchy built from it
    project_id,      \* the id passed to _get_project_and_subproject_ids
    project_ids,     \* the list it returned
    tree_pc,         \* "start", "built", "selected"
    \* ---- token store (auth_helper.py and quickbooks_client.py) ----
    token_file,      \* content of config.TOKEN_FILE
    client,          \* QuickBooksClient's access_token, refresh_token, realm_id
    last_write,      \* who wrote token_file last, and the record handed to the save
    last_load,       \* the last _load_tokens of the store specification
    \* ---- one wrapped API call (test_company_info / _make_request) ----
    call_kind,       \* "helper" (test_company_info) or "client" (_make_request)
    call_pc,         \* "start", "api_wait", "token_wait", "done"
    api_script,      \* what the API answers to the 1st, 2nd, ... request
    token_script,    \* what the token endpoint answers to a refresh grant
    call_tokens,     \* test_company_info's local `tokens`
    api_requests,    \* API requests sent so far
    refresh_calls,   \* calls of refresh_tokens / _refresh_access_token so far
    token_requests,  \* POSTs to the token endpoint so far
    req_tokens,      \* the access token each API request carried
    events,          \* the order of sends, returns and the refresh
    call_result,     \* "none", "success", "failure" (False), "raised"
    \* ---- authorization flow (QuickBooksAuthHelper.authenticate) ----
    server,          \* self.server: auth_code, realm_id, should_stop
    pending,         \* connections made to the listener and not yet accepted
    handlers,        \* the handler threads started so far: request, pc,
                     \*   response, and the call of authenticate they acted in
    serve_pc,        \* the _serve_until_stopped threads: "check", "waiting",
                     \*   "exited"
    main_pc,         \* authenticate: "poll", "read_code", "read_realm",
                     \*   "exchange_wait", "done"
    timed_out,       \* the poll loop ended on the timeout
    seen_accepted,   \* the poll loop ended on a stop flag that an accepted
                     \*   callback had set by then
    code,            \* authenticate's local `code`
    helper_realm_id, \* self.realm_id
    exchanges,       \* token exchanges started (_exchange_code_for_tokens)
    auth_result,     \* what authenticate returned: kind "pending", "none",
                     \*   "tokens", "raised"
    mismatch_denied, \* the first request was a callback carrying a code and
                     \*   a wrong state, rejected before any other arrived
    requests_made,   \* requests sent to the listener so far
    exchange_resp,   \* the answer to this call's exchange: "none", "ok",
                     \*   "status" (not 200), "error" (the request raised)
    outcomes,        \* of every finished call: why it ended and what it returned
    process,         \* number of the program run
    invocations,     \* calls of authenticate() so far, over all runs
    helper_state,    \* self.state of the current helper object
    issued,          \* the state of every consent URL built, with its call and run
    file_before,     \* the token file when the current call began
    \* ---- expense summary (get_project_expenses_summary) ----
    ledger,          \* the Purchase records the backend holds
    sum_project_id,  \* argument project_id (None when not given)
    sum_project_ids, \* argument project_ids (<<>> when not given or empty)
    sum_pc,          \* "setup", "fetch", "group", "done"
    all_expenses,    \* the records fetched so far, in order
    fetch_i,         \* position of the fetch loop in project_ids
    group_i,         \* position of the grouping loop in the fetched records
    project_expenses, \* the summary built so far: key -> group
    \* ---- refresh_tokens of the helper, called again and again ----
    rf_pc,           \* "idle", "token_wait"
    rf_calls,        \* refresh_tokens() calls started
    rf_sent,         \* token requests the current or last call has sent
    rf_outcome,      \* of the last call: "never", "running", "none", "tokens"
    rf_before,       \* the token file when the last call started
    rf_body,         \* the body of the 200 answer of the last call
    rf_first,        \* the token file before the first call
    \* ---- _save_tokens step by step, with a reader beside it ----
    sv_pc,           \* "idle", "writing" (inside the with block), "killed"
    sv_saves,        \* _save_tokens calls started
    sv_old,          \* the token file when the current or last save began
    sv_target,       \* the token file that save is to leave
    sv_seen,         \* what the reader last read, and the save's old and target
    \* ---- ensure_access_token, the stored access token growing old ----
    en_calls,        \* ensure_access_token() calls so far
    en_expired,      \* the access tokens whose lifetime is over
    en_posts,        \* token requests the last call has sent
    en_seen,         \* the token file when the last call began
    en_returned,     \* what the last call returned: kind "never", "value"
    \* ---- the query get_expenses builds ----
    q_project_id,    \* argument project_id
    q_start_date,    \* argument start_date
    q_end_date,      \* argument end_date
    q_pc,            \* "start", "built"
    q_query,         \* the query string, piece by piece
    \* ---- main's lookup of the project by its code ----
    project_code,    \* args.project_code
    target_project,  \* what _find_project_by_code returned (None or a node)
    exit_status      \* "running", "exit1" (sys.exit(1)), "goes_on"

fetchVars == <<entity, max_results, backend, start_position, fetched,
               page_requests, fetch_pc, last_response, page_lens, error_at>>

treeVars == <<flat, hierarchy, project_id, project_ids, tree_pc>>

storeVars == <<token_file, client, last_write, last_load>>

callVars == <<call_kind, call_pc, api_script, token_script, call_tokens,
              api_requests, refresh_calls, token_requests, req_tokens, events,
              call_result>>

\* the listener and its threads
listenVars == <<server, pending, handlers, serve_pc, mismatch_denied, requests_made>>

\* the caller of authenticate()
flowVars == <<main_pc, timed_out, seen_accepted, code, helper_realm_id, exchanges, exchange_resp,
              auth_result, outcomes>>

\* what outlives one call
histVars == <<process, invocations, helper_state, issued, file_before>>

authVars == <<listenVars, flowVars, histVars>>

sumVars == <<ledger, sum_project_id, sum_project_ids, sum_pc, all_expenses,
             fetch_i, group_i, project_expenses>>

refreshVars == <<rf_pc, rf_calls, rf_sent, rf_outcome, rf_before, rf_body, rf_first>>

saveVars == <<sv_pc, sv_saves, sv_old, sv_target, sv_seen>>

ensureVars == <<en_calls, en_expired, en_posts, en_seen, en_returned>>

queryVars == <<q_project_id, q_start_date, q_end_date, q_pc, q_query>>

findVars == <<project_code, target_project, exit_status>>

vars == <<fetchVars, treeVars, storeVars, callVars, authVars, sumVars, refreshVars,
          saveVars,
          ensureVars,
          queryVars,
          findVars>>

\* What the actions of one subsystem leave alone.
notFetchVars == <<treeVars, storeVars, callVars, authVars, sumVars, refreshVars, saveVars,
      ensureVars,
      queryVars,
      findVars>>

notTreeVars == <<fetchVars, storeVars, callVars, authVars, sumVars, refreshVars, saveVars,
      ensureVars,
      queryVars,
      findVars>>

notStoreVars == <<fetchVars, treeVars, callVars, authVars, sumVars, refreshVars, saveVars,
      ensureVars,
      queryVars,
      findVars>>

notCallVars == <<fetchVars, treeVars, authVars, sumVars, refreshVars, saveVars,
      ensureVars,
      queryVars,
      findVars>>

notAuthVars == <<fetchVars, treeVars, callVars, sumVars, refreshVars, saveVars,
      ensureVars,
      queryVars,
      findVars>>

notSumVars == <<fetchVars, treeVars, storeVars, callVars, authVars, refreshVars, saveVars,
      ensureVars,
      queryVars,
      findVars>>

notRefreshVars == <<fetchVars, treeVars, callVars, authVars, sumVars, saveVars,
      ensureVars,
      queryVars,
      findVars>>

notSaveVars == <<fetchVars, treeVars, callVars, authVars, sumVars, refreshVars,
      ensureVars,
      queryVars,
      findVars>>

notEnsureVars == <<fetchVars, treeVars, callVars, authVars, sumVars, refreshVars, saveVars,
      queryVars,
      findVars>>

notQueryVars == <<fetchVars, treeVars, storeVars, callVars, authVars, sumVars, refreshVars, saveVars, ensureVars,
      findVars>>

notFindVars == <<fetchVars, storeVars, callVars, authVars, sumVars, refreshVars, saveVars, ensureVars, queryVars>>

(* ======================================================================= *)
(*                 Paginated fetch: quickbooks_client.py                   *)
(* ======================================================================= *)

\* The page size sent in the request: 'max_results': min(max_results, 1000).
SentSize(m) == Min(m, PageCap)

\* What a backend holding the records 1..b answers to a query with cursor
\* `start` and page cap `sent`: the next at most `sent` records.
BackendPage(b, start, sent) == Range(start, Max(0, Min(sent, b - start + 1)))

\* A loop test that would also stop on a full page.
ReachedEndOffByOne(batchLen, m) == batchLen <= m

\* "if len(batch) < max_results: break"
ReachedEnd(batchLen, m) == batchLen < m

FetchEntities == {"Project", "Purchase"}

MaxResultsChoices == (0..MaxPage) \cup {PageCap, PageCap + 1}

BackendChoices == (0..(3 * MaxPage - 1)) \cup {PageCap, PageCap + 1, 3 * PageCap - 1}

NoResponse == [kind |-> "none", len |-> 0, sent |-> 0]

FetchInit ==
    /\ entity \in FetchEntities
    /\ max_results \in MaxResultsChoices
    /\ backend \in BackendChoices
    \* a backend of thousands of records is only paged through in large pages
    /\ (backend > 3 * MaxPage - 1) => (max_results >= PageCap)
    /\ start_position = 1
    /\ fetched = <<>>
    /\ page_requests = 0
    /\ fetch_pc = "loop"
    /\ last_response = NoResponse
    /\ page_lens = <<>>
    /\ error_at = 0

\* An iteration that would advance the cursor by one per page.
FetchPageBatchPageCursor ==
    /\ fetch_pc = "loop"
    /\ page_requests < MaxPageRequests
    /\ LET sent  == SentSize(max_results)
           batch == BackendPage(backend, start_position, sent)
       IN  /\ fetched' = fetched \o batch
           /\ page_requests' = page_requests + 1
           /\ page_lens' = Append(page_lens, Len(batch))
           /\ last_response' = [kind |-> "page", len |-> Len(batch), sent |-> sent]
           /\ IF ReachedEnd(Len(batch), max_results)
              THEN /\ fetch_pc' = "done"
                   /\ UNCHANGED start_position
              ELSE /\ fetch_pc' = "loop"
                   /\ start_position' = start_position + 1
    /\ UNCHANGED <<entity, max_results, backend, error_at>>
    /\ UNCHANGED notFetchVars

\* One iteration whose response carries the collection key: extend, then
\* either break (short page) or advance the cursor.
FetchPageBatch ==
    /\ fetch_pc = "loop"
    /\ page_requests < MaxPageRequests
    /\ LET sent  == SentSize(max_results)
           batch == BackendPage(backend, start_position, sent)
       IN  /\ fetched' = fetched \o batch
           /\ page_requests' = page_requests + 1
           /\ page_lens' = Append(page_lens, Len(batch))
           /\ last_response' = [kind |-> "page", len |-> Len(batch), sent |-> sent]
           /\ IF ReachedEnd(Len(batch), max_results)
              THEN /\ fetch_pc' = "done"
                   /\ UNCHANGED start_position
              ELSE /\ fetch_pc' = "loop"
                   /\ start_position' = start_position + Len(batch)
    /\ UNCHANGED <<entity, max_results, backend, error_at>>
    /\ UNCHANGED notFetchVars

\* One iteration whose response has no QueryResponse/<entity> key (what the
\* backend answers when nothing is left): break.
FetchPageNoKey ==
    /\ fetch_pc = "loop"
    /\ page_requests < MaxPageRequests
    /\ Len(BackendPage(backend, start_position, SentSize(max_results))) = 0
    /\ page_requests' = page_requests + 1
    /\ last_response' = [kind |-> "nokey", len |-> 0, sent |-> SentSize(max_results)]
    /\ fetch_pc' = "done"
    /\ UNCHANGED <<entity, max_results, backend, start_position, fetched,
                   page_lens, error_at>>
    /\ UNCHANGED notFetchVars

\* One iteration whose _make_request raises: "except Exception: print; break".
FetchPageError ==
    /\ fetch_pc = "loop"
    /\ page_requests < MaxPageRequests
    /\ page_requests' = page_requests + 1
    /\ last_response' = [kind |-> "error", len |-> 0, sent |-> SentSize(max_results)]
    /\ error_at' = page_requests + 1
    /\ fetch_pc' = "done"
    /\ UNCHANGED <<entity, max_results, backend, start_position, fetched, page_lens>>
    /\ UNCHANGED notFetchVars

FetchNext == FetchPageBatch \/ FetchPageNoKey \/ FetchPageError

\* The fetch is not running (used by the other specifications).
FetchIdle ==
    /\ entity = "Project"
    /\ max_results = PageCap
    /\ backend = 0
    /\ start_position = 1
    /\ fetched = <<>>
    /\ page_requests = 0
    /\ fetch_pc = "done"
    /\ last_response = NoResponse
    /\ page_lens = <<>>
    /\ error_at = 0

\* What the loop returns against a backend of b records when no request fails.
RECURSIVE CompleteFetch(_, _, _, _)
CompleteFetch(b, m, start, acc) ==
    LET batch == BackendPage(b, start, SentSize(m))
    IN  IF Len(batch) = 0 \/ ReachedEnd(Len(batch), m)
        THEN acc \o batch
        ELSE CompleteFetch(b, m, start + Len(batch), acc \o batch)

(* ----------------------------- C4 -------------------------------------- *)

\* The backend returns pages of sizes N, N, N-1 to a fetch with page size N.
ThreePageBackend ==
    /\ max_results >= 1
    /\ max_results <= PageCap
    /\ backend = 3 * max_results - 1

\* C4: a fetch with page size N = max_results against a backend that returns
\* pages of sizes N, N, N-1 (3N-1 records) and raises no error issues exactly
\* 3 page requests and returns exactly the 3N-1 records in backend order.
C4_ThreePagesFetched ==
    (fetch_pc = "done" /\ error_at = 0 /\ ThreePageBackend)
        => /\ page_requests = 3
           /\ fetched = Range(1, 3 * max_results - 1)

C4_Witness ==
    /\ fetch_pc = "done"
    /\ error_at = 0
    /\ ThreePageBackend
    /\ max_results >= 2
    /\ page_lens = <<max_results, max_results, max_results - 1>>
    /\ Len(fetched) = 3 * max_results - 1

(* ----------------------------- C5 -------------------------------------- *)

\* C5: for every max_results, after each response the loop goes on to request
\* a further page if and only if the response carried the collection key and
\* the page was as long as the page size sent in the request.
C5_ContinuesIffFullPage ==
    (last_response.kind # "none")
        => ((fetch_pc = "loop")
              <=> (last_response.kind = "page"
                     /\ last_response.len = last_response.sent))

(* ----------------------------- C6 -------------------------------------- *)

\* C6: when a page request other than the first raises, the fetch returns
\* exactly the records of the pages before it, and what it returns differs
\* from what every complete (error-free) fetch with the same page size
\* returns, so that the caller can tell the truncation.
C6_TruncationDistinguishable ==
    (fetch_pc = "done" /\ error_at >= 2 /\ max_results >= 1)
        => /\ fetched = Range(1, start_position - 1)
           /\ \A b \in BackendChoices :
                  CompleteFetch(b, max_results, 1, <<>>) # fetched

(* ----------------------------- C29 ------------------------------------- *)

\* C29: whenever the loop is about to send a page request, start_position
\* is 1 plus the number of records accumulated; and what is accumulated is
\* always the first records of the backend's list, in order, none skipped
\* and none twice.
C29_CursorFollowsAccumulated ==
    /\ fetch_pc = "loop" => start_position = 1 + Len(fetched)
    /\ Len(fetched) <= backend
    /\ fetched = Range(1, Len(fetched))

\* Two full pages of two records are in; the third request is about to
\* go out with start_position 5.
C29_Witness ==
    /\ fetch_pc = "loop"
    /\ max_results = 2
    /\ page_requests = 2
    /\ fetched = <<1, 2, 3, 4>>
    /\ start_position = 5
    /\ backend > 4

(* ======================================================================= *)
(*   Project hierarchy (quickbooks_client.py) and subtree ids (main.py)    *)
(* ======================================================================= *)

\* Python's None.
None == "None"

\* Provider-assigned project ids; the i-th record of a flat list carries
\* IdNames[i] unless stated otherwise.
IdNames == <<"p1", "p2", "p3", "p4", "p5", "p6">>

ProjectIdSet == {IdNames[i] : i \in 1..MaxProjects}

\* A parent reference that resolves to no project.
DanglingId == "zz"

SeqToSet(s) == {s[i] : i \in 1..Len(s)}

\* The hierarchy before get_project_hierarchy has run.
EmptyHierarchy ==
    [order |-> <<>>, parent_ref |-> <<>>, children |-> <<>>, root_projects |-> <<>>]

\* First pass: project_lookup[project_id] = {...} for every record with a
\* truthy Id.  `order` is the dict's insertion order; a repeated Id replaces
\* the stored node and keeps its place.
RECURSIVE FirstPass(_, _, _)
FirstPass(projects, i, h) ==
    IF i > Len(projects) THEN h
    ELSE LET project == projects[i]
             pid     == project.Id
         IN  IF pid = None
             THEN FirstPass(projects, i + 1, h)
             ELSE FirstPass(projects, i + 1,
                     [h EXCEPT
                        !.order = IF pid \in SeqToSet(@) THEN @ ELSE Append(@, pid),
                        !.parent_ref = [k \in (DOMAIN @) \cup {pid} |->
                                           IF k = pid THEN project.ParentRef ELSE @[k]],
                        !.children = [k \in (DOMAIN @) \cup {pid} |-> <<>>]])

\* A second pass that would not test whether the parent is in the lookup.
RECURSIVE SecondPassParentUnchecked(_, _)
SecondPassParentUnchecked(i, h) ==
    IF i > Len(h.order) THEN h
    ELSE LET pid       == h.order[i]
             parent_id == h.parent_ref[pid]
         IN  IF parent_id # None
             THEN SecondPassParentUnchecked(i + 1,
                     [h EXCEPT !.children =
                         [k \in DOMAIN @ |-> IF k = parent_id THEN Append(@[k], pid)
                                              ELSE @[k]]])
             ELSE SecondPassParentUnchecked(i + 1,
                     [h EXCEPT !.root_projects = Append(@, pid)])

\* A second pass that would list a child among the roots as well.
RECURSIVE SecondPassChildAlsoRoot(_, _)
SecondPassChildAlsoRoot(i, h) ==
    IF i > Len(h.order) THEN h
    ELSE LET pid       == h.order[i]
             parent_id == h.parent_ref[pid]
         IN  IF parent_id # None /\ parent_id \in DOMAIN h.parent_ref
             THEN SecondPassChildAlsoRoot(i + 1,
                     [h EXCEPT !.children[parent_id] = Append(@, pid),
                               !.root_projects = Append(@, pid)])
             ELSE SecondPassChildAlsoRoot(i + 1,
                     [h EXCEPT !.root_projects = Append(@, pid)])

\* Second pass: every node whose parent_ref is set and is a key of
\* project_lookup is appended to that parent's children, every other node
\* to root_projects.
RECURSIVE SecondPass(_, _)
SecondPass(i, h) ==
    IF i > Len(h.order) THEN h
    ELSE LET pid       == h.order[i]
             parent_id == h.parent_ref[pid]
         IN  IF parent_id # None /\ parent_id \in DOMAIN h.parent_ref
             THEN SecondPass(i + 1, [h EXCEPT !.children[parent_id] = Append(@, pid)])
             ELSE SecondPass(i + 1, [h EXCEPT !.root_projects = Append(@, pid)])

\* get_project_hierarchy, applied to the list get_projects returned.
BuildHierarchy(projects) == SecondPass(1, FirstPass(projects, 1, EmptyHierarchy))

\* The dict objects main.py walks: the hierarchy dict and the node dicts.
HierarchyRef == "hierarchy"

\* The keys of each dict: hierarchy['root_projects'], hierarchy['all_projects'];
\* a node has 'id', 'name', 'description', 'parent_ref', 'children', 'expenses'.
DictKeys(ref) ==
    IF ref = HierarchyRef
    THEN {"root_projects", "all_projects"}
    ELSE {"id", "name", "description", "parent_ref", "children", "expenses"}

\* node.get('Id'): the value under the key 'Id', None when the key is absent.
GetId(h, ref) ==
    IF "Id" \in DictKeys(ref) THEN ref ELSE None

\* node.get('children', []).
GetChildren(h, ref) ==
    IF "children" \in DictKeys(ref) /\ ref # HierarchyRef THEN h.children[ref] ELSE <<>>

\* find_project_node(node, target_id): the node itself, else the first hit
\* among its children, else None.
RECURSIVE FindProjectNode(_, _, _)
RECURSIVE FindAmong(_, _, _, _)
FindProjectNode(h, ref, target_id) ==
    IF GetId(h, ref) = target_id THEN ref
    ELSE FindAmong(h, GetChildren(h, ref), 1, target_id)

FindAmong(h, kids, i, target_id) ==
    IF i > Len(kids) THEN None
    ELSE LET result == FindProjectNode(h, kids[i], target_id)
         IN  IF result # None THEN result ELSE FindAmong(h, kids, i + 1, target_id)

\* collect_project_ids(node, project_ids): pre-order append of node.get('Id').
RECURSIVE CollectProjectIds(_, _)
RECURSIVE CollectAmong(_, _, _)
CollectProjectIds(h, ref) ==
    <<GetId(h, ref)>> \o CollectAmong(h, GetChildren(h, ref), 1)

CollectAmong(h, kids, i) ==
    IF i > Len(kids) THEN <<>>
    ELSE CollectProjectIds(h, kids[i]) \o CollectAmong(h, kids, i + 1)

\* A lookup whose fallback would be the empty list.
GetIdsEmptyFallback(h, pid) ==
    LET target_node == FindProjectNode(h, HierarchyRef, pid)
    IN  IF target_node = None THEN <<>> ELSE CollectProjectIds(h, target_node)

\* _get_project_and_subproject_ids(hierarchy, project_id).
GetProjectAndSubprojectIds(h, pid) ==
    LET target_node == FindProjectNode(h, HierarchyRef, pid)
    IN  IF target_node = None THEN <<pid>> ELSE CollectProjectIds(h, target_node)

ParentChoices == ProjectIdSet \cup {None, DanglingId}

\* No record so far repeats an id or lacks one.
Regular(projects) ==
    \A i \in 1..Len(projects) : projects[i].Id = IdNames[i]

TreeInit ==
    /\ flat = <<>>
    /\ hierarchy = EmptyHierarchy
    /\ project_id = None
    /\ project_ids = <<>>
    /\ tree_pc = "start"

\* projects = self.get_projects(): the backend's list, one record at a time.
\* Record i carries the id IdNames[i] and any parent reference; the last
\* record may instead repeat the first id or carry no id.
ReceiveProject ==
    /\ tree_pc = "start"
    /\ Len(flat) < MaxProjects
    /\ Regular(flat)
    /\ \E pr \in ParentChoices, pid \in {IdNames[Len(flat) + 1], IdNames[1], None} :
          flat' = Append(flat, [Id |-> pid, ParentRef |-> pr])
    /\ UNCHANGED <<hierarchy, project_id, project_ids, tree_pc>>
    /\ UNCHANGED notTreeVars

\* hierarchy = client.get_project_hierarchy()
GetProjectHierarchy ==
    /\ tree_pc = "start"
    /\ hierarchy' = BuildHierarchy(flat)
    /\ tree_pc' = "built"
    /\ UNCHANGED <<flat, project_id, project_ids>>
    /\ UNCHANGED notTreeVars

\* project_ids = _get_project_and_subproject_ids(hierarchy, id)
SelectSubtree ==
    /\ tree_pc = "built"
    /\ \E pid \in ProjectIdSet \cup {DanglingId} :
          /\ project_id' = pid
          /\ project_ids' = GetProjectAndSubprojectIds(hierarchy, pid)
    /\ tree_pc' = "selected"
    /\ UNCHANGED <<flat, hierarchy>>
    /\ UNCHANGED notTreeVars

TreeNext == ReceiveProject \/ GetProjectHierarchy \/ SelectSubtree

\* The hierarchy code is not running (used by the other specifications).
TreeIdle ==
    /\ flat = <<>>
    /\ hierarchy = EmptyHierarchy
    /\ project_id = None
    /\ project_ids = <<>>
    /\ tree_pc = "selected"

\* The ids in the lookup table.
AllProjects(h) == DOMAIN h.parent_ref

\* The parent of a node in the tree: its parent_ref when that resolves.
RECURSIVE ReachesRoot(_, _, _)
ReachesRoot(h, pid, fuel) ==
    LET parent_id == h.parent_ref[pid]
    IN  IF parent_id = None \/ parent_id \notin AllProjects(h) THEN TRUE
        ELSE IF fuel = 0 THEN FALSE
        ELSE ReachesRoot(h, parent_id, fuel - 1)

\* The parent references form a forest: every parent chain ends at a root.
IsForest(h) == \A pid \in AllProjects(h) : ReachesRoot(h, pid, Cardinality(AllProjects(h)))

\* Depth-first pre-order of the ids in the subtree of pid.
RECURSIVE PreOrder(_, _)
RECURSIVE PreOrderAmong(_, _, _)
PreOrder(h, pid) == <<pid>> \o PreOrderAmong(h, h.children[pid], 1)

PreOrderAmong(h, kids, i) ==
    IF i > Len(kids) THEN <<>>
    ELSE PreOrder(h, kids[i]) \o PreOrderAmong(h, kids, i + 1)

(* ----------------------------- C9 -------------------------------------- *)

\* C9: for a flat list whose parent references form a forest, the ids
\* selected for a project of the hierarchy are that project and all its
\* descendants, each once, in depth-first pre-order.
C9_SubtreeInPreOrder ==
    (tree_pc = "selected" /\ IsForest(hierarchy) /\ project_id \in AllProjects(hierarchy))
        => project_ids = PreOrder(hierarchy, project_id)

(* ----------------------------- C10 ------------------------------------- *)

\* C10: the selection always starts with the requested id, and is exactly
\* that one id when the id is not in the tree.
C10_FallbackToSelf ==
    (tree_pc = "selected")
        => /\ Len(project_ids) >= 1
           /\ project_ids[1] = project_id
           /\ (project_id \notin AllProjects(hierarchy) => project_ids = <<project_id>>)

C10_Witness ==
    /\ tree_pc = "selected"
    /\ Len(flat) >= 2
    /\ project_id \notin AllProjects(hierarchy)
    /\ project_ids = <<project_id>>

(* ----------------------------- C24 ------------------------------------- *)

\* The sequence holds no element twice.
NoRepeats(seq) == \A i \in 1..Len(seq), j \in 1..Len(seq) : seq[i] = seq[j] => i = j

\* The ids the flat list carries.
FlatIds == {flat[i].Id : i \in 1..Len(flat)} \ {None}

\* C24: the lookup table of the hierarchy built holds each id of the flat
\* list once; a node is in root_projects (once) exactly when it has no parent
\* reference or its parent reference is no id of the table; the hierarchy is
\* built whatever the parent references are.
C24_LookupAndRoots ==
    tree_pc # "start" =>
        /\ AllProjects(hierarchy) = FlatIds
        /\ SeqToSet(hierarchy.order) = FlatIds
        /\ NoRepeats(hierarchy.order)
        /\ NoRepeats(hierarchy.root_projects)
        /\ \A pid \in AllProjects(hierarchy) :
              pid \in SeqToSet(hierarchy.root_projects)
                  <=> \/ hierarchy.parent_ref[pid] = None
                      \/ hierarchy.parent_ref[pid] \notin AllProjects(hierarchy)

\* p1 is a root without a parent reference, p2 a root whose parent
\* reference resolves to nothing, p3 a child of p1.
C24_Witness ==
    /\ tree_pc = "built"
    /\ Len(flat) = 3
    /\ hierarchy.parent_ref = [k \in {"p1", "p2", "p3"} |->
                                  IF k = "p1" THEN None
                                  ELSE IF k = "p2" THEN DanglingId ELSE "p1"]
    /\ hierarchy.root_projects = <<"p1", "p2">>
    /\ hierarchy.children["p1"] = <<"p3">>

(* ----------------------------- C30 ------------------------------------- *)

\* The ids a walk over root_projects and, recursively, the children lists
\* visits, in the order of the visits.
TraversalFromRoots(h) == PreOrderAmong(h, h.root_projects, 1)

\* The entries of root_projects from which pid is reached through children.
RootsReaching(h, pid) ==
    {r \in 1..Len(h.root_projects) : pid \in SeqToSet(PreOrder(h, h.root_projects[r]))}

\* Every node of all_projects is reached from exactly one entry of
\* root_projects, and the walk from the roots visits every node once.
EachReachedOnce(h) ==
    /\ \A pid \in AllProjects(h) : Cardinality(RootsReaching(h, pid)) = 1
    /\ SeqToSet(TraversalFromRoots(h)) = AllProjects(h)
    /\ NoRepeats(TraversalFromRoots(h))

\* C30 as stated: whatever the flat list is, every node of the hierarchy
\* built is reached from exactly one root and the walk from the roots
\* visits every project exactly once.
C30_AnyListReachedOnce ==
    tree_pc # "start" => EachReachedOnce(hierarchy)

\* C30, amended: when no chain of resolving parent references of the flat
\* list closes on itself, every node of the hierarchy built is reached from
\* exactly one root and the walk from the roots visits every project
\* exactly once.
C30_AcyclicListReachedOnce ==
    (tree_pc # "start" /\ IsForest(hierarchy)) => EachReachedOnce(hierarchy)

\* Two roots, p1 with the chain p1 > p3 > p4 below it and p2 with a parent
\* reference that resolves to nothing.
C30_Witness ==
    /\ tree_pc = "built"
    /\ Len(flat) = 4
    /\ IsForest(hierarchy)
    /\ hierarchy.root_projects = <<"p1", "p2">>
    /\ hierarchy.children["p1"] = <<"p3">>
    /\ hierarchy.children["p3"] = <<"p4">>
    /\ TraversalFromRoots(hierarchy) = <<"p1", "p3", "p4", "p2">>

(* ======================================================================= *)
(*     Token store: _save_tokens / _load_tokens of helper and client       *)
(* ======================================================================= *)

\* Python values a token record holds.
PyStr(x) == [t |-> "str", v |-> x]

PyInt(x) == [t |-> "int", v |-> x]

PyNone == [t |-> "none", v |-> ""]

\* Python truthiness of such a value: None and "" are falsy.
Truthy(pv) == pv.t # "none" /\ pv.v # ""

\* A json.dump that would write None as the string "None".
DumpValueNoneAsString(pv) ==
    CASE pv.t = "str"  -> [lit |-> "string", text |-> pv.v]
      [] pv.t = "int"  -> [lit |-> "number", text |-> pv.v]
      [] pv.t = "none" -> [lit |-> "string", text |-> "None"]

\* json.dump of one value: a quoted string, a number, or null.
DumpValue(pv) ==
    CASE pv.t = "str"  -> [lit |-> "string", text |-> pv.v]
      [] pv.t = "int"  -> [lit |-> "number", text |-> pv.v]
      [] pv.t = "none" -> [lit |-> "null", text |-> "null"]

\* json.load of one literal.
ParseLiteral(l) ==
    CASE l.lit = "string" -> PyStr(l.text)
      [] l.lit = "number" -> PyInt(l.text)
      [] l.lit = "null"   -> PyNone

\* json.dump(tokens, f): the object's members, literal by literal.
JsonDump(d) == [k \in DOMAIN d |-> DumpValue(d[k])]

\* json.load(f) of an object document.
JsonLoad(doc) == [k \in DOMAIN doc |-> ParseLiteral(doc[k])]

\* dict.get(key): the value, None when the key is absent.
DictGet(d, k) == IF k \in DOMAIN d THEN d[k] ELSE PyNone

\* The token file: absent, an object document, some other JSON value, or
\* text that is no JSON at all.
FileMissing == [kind |-> "missing", doc |-> <<>>]

FileGarbage == [kind |-> "garbage", doc |-> <<>>]

FileOtherJson == [kind |-> "other", doc |-> <<>>]

FileObject(doc) == [kind |-> "object", doc |-> doc]

\* QuickBooksAuthHelper._save_tokens(tokens): open(..., "w"); json.dump.
HelperSaveTokens(tokens) == FileObject(JsonDump(tokens))

\* A _load_tokens without the try/except around json.load.
HelperLoadTokensUncaught(file) ==
    CASE file.kind = "missing" -> [kind |-> "none", d |-> <<>>]
      [] file.kind = "garbage" -> [kind |-> "raised", d |-> <<>>]
      [] file.kind = "other"   -> [kind |-> "other", d |-> <<>>]
      [] file.kind = "object"  -> [kind |-> "dict", d |-> JsonLoad(file.doc)]

\* QuickBooksAuthHelper._load_tokens(): None when the file does not exist or
\* json.load raises, else whatever json.load returns.
HelperLoadTokens(file) ==
    CASE file.kind = "missing" -> [kind |-> "none", d |-> <<>>]
      [] file.kind = "garbage" -> [kind |-> "none", d |-> <<>>]
      [] file.kind = "other"   -> [kind |-> "other", d |-> <<>>]
      [] file.kind = "object"  -> [kind |-> "dict", d |-> JsonLoad(file.doc)]

\* QuickBooksClient.__init__: the three credential fields start as None.
ClientUnset == [access_token |-> PyNone, refresh_token |-> PyNone, realm_id |-> PyNone]

\* QuickBooksClient._load_tokens(): the three fields from tokens.get(...);
\* any exception (json.load, or .get on a non-dict) is printed and leaves
\* the fields as they were.
ClientLoadTokens(file, fields) ==
    IF file.kind = "object"
    THEN LET tokens == JsonLoad(file.doc)
         IN  [access_token  |-> DictGet(tokens, "access_token"),
              refresh_token |-> DictGet(tokens, "refresh_token"),
              realm_id      |-> DictGet(tokens, "realm_id")]
    ELSE fields

\* QuickBooksClient._save_tokens(): the three fields and a timestamp.
ClientSaveTokens(fields, now) ==
    FileObject(JsonDump([access_token  |-> fields.access_token,
                         refresh_token |-> fields.refresh_token,
                         realm_id      |-> fields.realm_id,
                         timestamp     |-> PyStr(now)]))

\* Token records tried: any subset of these keys; the refresh token may be
\* null.
TokenKeys == {"access_token", "refresh_token", "realm_id", "expires_in"}

TokenValues(k) ==
    CASE k = "access_token"  -> {PyStr("at1")}
      [] k = "refresh_token" -> {PyStr("rt1"), PyNone}
      [] k = "realm_id"      -> {PyStr("realm1")}
      [] k = "expires_in"    -> {PyInt("3600")}

TokenDicts ==
    UNION { {d \in [ks -> UNION {TokenValues(k) : k \in ks}] :
                \A k \in ks : d[k] \in TokenValues(k)}
            : ks \in SUBSET TokenKeys }

\* datetime.now().isoformat() values.
Timestamps == {"t1", "t2"}

NoWrite == [by |-> "none", rec |-> <<>>]

NoLoad == [by |-> "none", from |-> FileMissing, kind |-> "none", d |-> <<>>,
           after |-> NoWrite]

StoreInit ==
    /\ token_file = FileMissing
    /\ client = ClientUnset
    /\ last_write = NoWrite
    /\ last_load = NoLoad

\* helper._save_tokens(tokens) with a record the token endpoint returned.
HelperSave ==
    /\ \E tokens \in TokenDicts :
          /\ token_file' = HelperSaveTokens(tokens)
          /\ last_write' = [by |-> "helper", rec |-> tokens]
    /\ UNCHANGED <<client, last_load>>
    /\ UNCHANGED notStoreVars

\* helper._load_tokens()
HelperLoad ==
    /\ LET out == HelperLoadTokens(token_file)
       IN  last_load' = [by |-> "helper", from |-> token_file, kind |-> out.kind,
                         d |-> out.d, after |-> last_write]
    /\ UNCHANGED <<token_file, client, last_write>>
    /\ UNCHANGED notStoreVars

\* QuickBooksClient(): fields set to None, then _load_tokens().
ClientNew ==
    /\ LET out == ClientLoadTokens(token_file, ClientUnset)
       IN  /\ client' = out
           /\ last_load' = [by |-> "client", from |-> token_file, kind |-> "fields",
                            d |-> out, after |-> last_write]
    /\ UNCHANGED <<token_file, last_write>>
    /\ UNCHANGED notStoreVars

\* client._save_tokens()
ClientSave ==
    /\ \E now \in Timestamps : token_file' = ClientSaveTokens(client, now)
    /\ last_write' = [by |-> "client", rec |-> client]
    /\ UNCHANGED <<client, last_load>>
    /\ UNCHANGED notStoreVars

\* The file is removed, or replaced by text that is not JSON, or by a JSON
\* value that is not an object (by the user or another program).
FileDamaged ==
    /\ \E f \in {FileMissing, FileGarbage, FileOtherJson} :
          /\ token_file # f
          /\ token_file' = f
    /\ last_write' = [by |-> "other", rec |-> <<>>]
    /\ UNCHANGED <<client, last_load>>
    /\ UNCHANGED notStoreVars

StoreNext == HelperSave \/ HelperLoad \/ ClientNew \/ ClientSave \/ FileDamaged

\* The token store is not in use (used by the other specifications).
StoreIdle == StoreInit

(* ----------------------------- C7 -------------------------------------- *)

\* The load read the file that a save of the same class had written.
RoundTrip(who) == last_load.by = who /\ last_load.after.by = who

\* C7: a record saved with _save_tokens and then loaded with _load_tokens
\* comes back equal in every field: the helper's whole dict, the client's
\* access_token, refresh_token and realm_id.
C7_SaveLoadRoundTrip ==
    /\ RoundTrip("helper") =>
          (last_load.kind = "dict" /\ last_load.d = last_load.after.rec)
    /\ RoundTrip("client") =>
          (last_load.kind = "fields" /\ last_load.d = last_load.after.rec)

C7_Witness ==
    /\ RoundTrip("helper")
    /\ DOMAIN last_load.after.rec = TokenKeys
    /\ last_load.after.rec["refresh_token"] = PyNone
    /\ last_load.d = last_load.after.rec

(* ----------------------------- C8 -------------------------------------- *)

Unreadable(file) == file.kind \in {"missing", "garbage"}

\* C8: loading when the file is missing or is not JSON raises nothing and
\* gives no credential: None from the helper, all three fields unset in the
\* client.
C8_LoadFailureIsNoCredential ==
    /\ (last_load.by = "helper" /\ Unreadable(last_load.from))
          => last_load.kind = "none"
    /\ (last_load.by = "client" /\ Unreadable(last_load.from))
          => (last_load.kind = "fields" /\ last_load.d = ClientUnset)

C8_Witness ==
    /\ last_load.by = "helper"
    /\ last_load.from = FileGarbage
    /\ last_load.after.by = "other"
    /\ last_load.kind = "none"

(* ======================================================================= *)
(*   One wrapped API call: test_company_info (auth_helper.py) and          *)
(*   _make_request (quickbooks_client.py)                                  *)
(* ======================================================================= *)

\* What one API request may come back with: an HTTP status, or 0 for a
\* request that raised (no response).
ApiOutcomes == {200, 401, 500, 0}

\* Bodies of a 200 answer of the token endpoint.
RefreshBodies ==
    { [access_token |-> PyStr("at2"), refresh_token |-> PyStr("rt2")],
      [access_token |-> PyStr("at2"), refresh_token |-> PyStr("rt2"),
       realm_id |-> PyStr("realm2")],
      [access_token |-> PyStr("at2")],
      [refresh_token |-> PyStr("rt2")],
      <<>> }

\* Answers of the token endpoint: 200 with a body, another status, or 0 for
\* a request (or a resp.json()) that raised.
TokenResponses ==
    {[status |-> 200, body |-> b] : b \in RefreshBodies}
        \cup {[status |-> 400, body |-> <<>>], [status |-> 0, body |-> <<>>]}

\* Token files a call may start from.
CallFiles ==
    {FileMissing, FileGarbage}
        \cup {HelperSaveTokens(d) : d \in {t \in TokenDicts : "expires_in" \notin DOMAIN t}}

CallKinds == {"helper", "client"}

CallInit ==
    /\ call_kind \in CallKinds
    /\ token_file \in CallFiles
    /\ client = IF call_kind = "client"
                THEN ClientLoadTokens(token_file, ClientUnset)
                ELSE ClientUnset
    /\ last_write = NoWrite
    /\ last_load = NoLoad
    /\ call_pc = "start"
    /\ api_script \in [1..MaxApiCalls -> ApiOutcomes]
    /\ token_script \in TokenResponses
    /\ call_tokens = <<>>
    /\ api_requests = 0
    /\ refresh_calls = 0
    /\ token_requests = 0
    /\ req_tokens = <<>>
    /\ events = <<>>
    /\ call_result = "none"

\* The call has returned `result`.
Return(result) ==
    /\ call_pc' = "done"
    /\ call_result' = result

\* An API request carrying `access` goes out.
SendApi(access, evs) ==
    /\ api_requests' = api_requests + 1
    /\ req_tokens' = Append(req_tokens, access)
    /\ events' = evs \o <<"api_send">>
    /\ call_pc' = "api_wait"

\* "if not tokens or 'access_token' not in tokens or 'realm_id' not in tokens"
NoValidTokens(loaded) ==
    \/ loaded.kind # "dict"
    \/ DOMAIN loaded.d = {}
    \/ "access_token" \notin DOMAIN loaded.d
    \/ "realm_id" \notin DOMAIN loaded.d

\* test_company_info up to its first _company_info request.
TestCompanyInfoStart ==
    /\ call_kind = "helper"
    /\ call_pc = "start"
    /\ LET loaded == HelperLoadTokens(token_file)
       IN  IF NoValidTokens(loaded)
           THEN /\ Return("failure")
                /\ UNCHANGED <<call_tokens, api_requests, req_tokens, events>>
           ELSE /\ call_tokens' = loaded.d
                /\ SendApi(loaded.d["access_token"], events)
                /\ UNCHANGED call_result
    /\ UNCHANGED <<call_kind, api_script, token_script, refresh_calls, token_requests>>
    /\ UNCHANGED <<storeVars, notCallVars>>

\* A guard that would only test "not tokens".
NoRefreshTokenKeyIgnored(loaded) ==
    \/ loaded.kind # "dict"
    \/ DOMAIN loaded.d = {}

\* refresh_tokens() up to its POST: "if not tokens or 'refresh_token' not in
\* tokens: return None".
NoRefreshToken(loaded) ==
    \/ loaded.kind # "dict"
    \/ DOMAIN loaded.d = {}
    \/ "refresh_token" \notin DOMAIN loaded.d

\* The first _company_info returns: True ends the call, 401 enters
\* refresh_tokens() (up to its POST), anything else is a failure.
HelperFirstReturn ==
    /\ call_kind = "helper"
    /\ call_pc = "api_wait"
    /\ api_requests = 1
    /\ LET ok == api_script[1]
           evs == Append(events, "api_return")
       IN  CASE ok = 200 ->
                  /\ Return("success")
                  /\ events' = evs
                  /\ UNCHANGED <<refresh_calls, token_requests>>
             [] ok = 401 ->
                  /\ refresh_calls' = refresh_calls + 1
                  /\ IF NoRefreshToken(HelperLoadTokens(token_file))
                     THEN /\ Return("failure")
                          /\ events' = evs \o <<"refresh_begin", "refresh_end">>
                          /\ UNCHANGED token_requests
                     ELSE /\ token_requests' = token_requests + 1
                          /\ events' = evs \o <<"refresh_begin", "token_send">>
                          /\ call_pc' = "token_wait"
                          /\ UNCHANGED call_result
             [] OTHER ->
                  /\ Return("failure")
                  /\ events' = evs
                  /\ UNCHANGED <<refresh_calls, token_requests>>
    /\ UNCHANGED <<call_kind, api_script, token_script, call_tokens, api_requests,
                   req_tokens>>
    /\ UNCHANGED <<storeVars, notCallVars>>

\* A refresh that would save the response as it came.
CarryRealmDropped(new_tokens, tokens) == new_tokens

\* "if 'realm_id' not in new_tokens and 'realm_id' in tokens:
\*      new_tokens['realm_id'] = tokens['realm_id']"
CarryRealm(new_tokens, tokens) ==
    IF "realm_id" \notin DOMAIN new_tokens /\ "realm_id" \in DOMAIN tokens
    THEN [k \in (DOMAIN new_tokens) \cup {"realm_id"} |->
             IF k = "realm_id" THEN tokens["realm_id"] ELSE new_tokens[k]]
    ELSE new_tokens

\* The token endpoint answers: refresh_tokens() finishes (carry the realm id
\* forward, save, return), and test_company_info goes on to its retry.
HelperTokenReturn ==
    /\ call_kind = "helper"
    /\ call_pc = "token_wait"
    /\ LET evs == events \o <<"token_return", "refresh_end">>
           old == HelperLoadTokens(token_file).d
       IN  IF token_script.status # 200
           THEN /\ Return("failure")
                /\ events' = evs
                /\ UNCHANGED <<token_file, last_write, api_requests, req_tokens>>
           ELSE LET new_tokens == CarryRealm(token_script.body, old)
                IN  /\ token_file' = HelperSaveTokens(new_tokens)
                    /\ last_write' = [by |-> "helper", rec |-> new_tokens]
                    /\ IF DOMAIN new_tokens = {}
                       THEN /\ Return("failure")
                            /\ events' = evs
                            /\ UNCHANGED <<api_requests, req_tokens>>
                       ELSE IF "access_token" \notin DOMAIN new_tokens
                       THEN /\ Return("raised")
                            /\ events' = evs
                            /\ UNCHANGED <<api_requests, req_tokens>>
                       ELSE /\ SendApi(new_tokens["access_token"], evs)
                            /\ UNCHANGED call_result
    /\ UNCHANGED <<call_kind, api_script, token_script, call_tokens, refresh_calls,
                   token_requests>>
    /\ UNCHANGED <<client, last_load, notCallVars>>

\* A retry branch that would go on retrying while the answer is 401.
HelperRetryReturnAgain ==
    /\ call_kind = "helper"
    /\ call_pc = "api_wait"
    /\ api_requests >= 2
    /\ api_requests < MaxApiCalls
    /\ LET ok2 == api_script[api_requests]
           evs == Append(events, "api_return")
       IN  IF ok2 = 401
           THEN /\ SendApi(req_tokens[api_requests], evs)
                /\ UNCHANGED call_result
           ELSE /\ Return(IF ok2 = 200 THEN "success" ELSE "failure")
                /\ events' = evs
                /\ UNCHANGED <<api_requests, req_tokens>>
    /\ UNCHANGED <<call_kind, api_script, token_script, call_tokens, refresh_calls,
                   token_requests>>
    /\ UNCHANGED <<storeVars, notCallVars>>

\* The retried _company_info returns: True or False, and nothing further.
HelperRetryReturn ==
    /\ call_kind = "helper"
    /\ call_pc = "api_wait"
    /\ api_requests = 2
    /\ Return(IF api_script[2] = 200 THEN "success" ELSE "failure")
    /\ events' = Append(events, "api_return")
    /\ UNCHANGED <<call_kind, api_script, token_script, call_tokens, api_requests,
                   refresh_calls, token_requests, req_tokens>>
    /\ UNCHANGED <<storeVars, notCallVars>>

\* _make_request up to its request: "if not self.access_token or not
\* self.realm_id: raise".
ClientMakeRequestStart ==
    /\ call_kind = "client"
    /\ call_pc = "start"
    /\ IF ~Truthy(client.access_token) \/ ~Truthy(client.realm_id)
       THEN /\ Return("raised")
            /\ UNCHANGED <<api_requests, req_tokens, events>>
       ELSE /\ SendApi(client.access_token, events)
            /\ UNCHANGED call_result
    /\ UNCHANGED <<call_kind, api_script, token_script, call_tokens, refresh_calls,
                   token_requests>>
    /\ UNCHANGED <<storeVars, notCallVars>>

\* QuickBooksClient._refresh_access_token(): raises in every case ("No
\* refresh token available", or "Access token expired. Please
\* re-authenticate."); it sends nothing and changes no field.
ClientRefreshRaises(fields) == TRUE

\* The request of _make_request returns: the JSON on 200; otherwise the
\* except branch, which on a 401 with a refresh token calls
\* _refresh_access_token() and would then call _make_request again, and in
\* every other case re-raises.
ClientApiReturn ==
    /\ call_kind = "client"
    /\ call_pc = "api_wait"
    /\ api_requests <= MaxApiCalls
    /\ LET status == api_script[api_requests]
           evs == Append(events, "api_return")
       IN  IF status = 200
           THEN /\ Return("success")
                /\ events' = evs
                /\ UNCHANGED <<refresh_calls, api_requests, req_tokens>>
           ELSE IF status = 401 /\ Truthy(client.refresh_token)
           THEN /\ refresh_calls' = refresh_calls + 1
                /\ IF ClientRefreshRaises(client)
                   THEN /\ Return("raised")
                        /\ events' = evs \o <<"refresh_begin", "refresh_end">>
                        /\ UNCHANGED <<api_requests, req_tokens>>
                   ELSE /\ api_requests < MaxApiCalls
                        /\ SendApi(client.access_token,
                                   evs \o <<"refresh_begin", "refresh_end">>)
                        /\ UNCHANGED call_result
           ELSE /\ Return("raised")
                /\ events' = evs
                /\ UNCHANGED <<refresh_calls, api_requests, req_tokens>>
    /\ UNCHANGED <<call_kind, api_script, token_script, call_tokens, token_requests>>
    /\ UNCHANGED <<storeVars, notCallVars>>

CallNext ==
    \/ TestCompanyInfoStart
    \/ HelperFirstReturn
    \/ HelperTokenReturn
    \/ HelperRetryReturn
    \/ ClientMakeRequestStart
    \/ ClientApiReturn

\* No wrapped call is running (used by the other specifications).
CallIdle ==
    /\ call_kind = "helper"
    /\ call_pc = "done"
    /\ api_script = [i \in 1..MaxApiCalls |-> 200]
    /\ token_script = [status |-> 0, body |-> <<>>]
    /\ call_tokens = <<>>
    /\ api_requests = 0
    /\ refresh_calls = 0
    /\ token_requests = 0
    /\ req_tokens = <<>>
    /\ events = <<>>
    /\ call_result = "none"

(* ----------------------------- C2 -------------------------------------- *)

\* The refresh credential the call has at hand is set.
StoredRefreshToken ==
    IF call_kind = "helper"
    THEN "refresh_token" \in DOMAIN call_tokens /\ Truthy(call_tokens["refresh_token"])
    ELSE Truthy(client.refresh_token)

\* The token endpoint would answer a refresh grant with a new access token.
RefreshWouldSucceed ==
    /\ token_script.status = 200
    /\ "access_token" \in DOMAIN token_script.body

\* C2: a call whose first request fails with 401 and whose next request would
\* succeed (the refresh credential being stored and accepted) returns the
\* success value, has refreshed exactly once, and has sent the retry with the
\* refreshed access token.
C2_RetryAfter401Succeeds ==
    (/\ call_pc = "done"
     /\ api_requests >= 1
     /\ api_script[1] = 401
     /\ api_script[2] = 200
     /\ StoredRefreshToken
     /\ RefreshWouldSucceed)
        => /\ call_result = "success"
           /\ refresh_calls = 1
           /\ api_requests = 2
           /\ req_tokens[2] = token_script.body["access_token"]

(* ----------------------------- C3 -------------------------------------- *)

\* Number of entries of s equal to e among its first n.
RECURSIVE CountUpTo(_, _, _)
CountUpTo(s, e, n) ==
    IF n = 0 THEN 0
    ELSE CountUpTo(s, e, n - 1) + (IF s[n] = e THEN 1 ELSE 0)

\* A request is in flight after the first n events.
InFlight(s, n) == CountUpTo(s, "api_send", n) > CountUpTo(s, "api_return", n)

\* The refresh runs after the first n events.
Refreshing(s, n) == CountUpTo(s, "refresh_begin", n) > CountUpTo(s, "refresh_end", n)

\* The refresh begins only once the first request has returned, no request
\* is sent or returns while it runs, and the retry is sent after it ended.
RefreshOrdered(s) ==
    \A n \in 1..Len(s) :
        /\ s[n] = "refresh_begin" =>
              (CountUpTo(s, "api_return", n) = 1 /\ ~InFlight(s, n))
        /\ Refreshing(s, n) => ~InFlight(s, n)
        /\ (s[n] = "api_send" /\ CountUpTo(s, "api_send", n) = 2) =>
              (CountUpTo(s, "refresh_end", n) = 1 /\ ~Refreshing(s, n))

\* C3: whatever the API and the token endpoint answer, one wrapped call sends
\* at most two API requests and refreshes at most once, a failed retry is
\* returned to the caller as a failure, and the refresh lies strictly between
\* the return of the first request and the sending of the retry.
C3_BoundedRetry ==
    /\ api_requests <= 2
    /\ refresh_calls <= 1
    /\ token_requests <= 1
    /\ RefreshOrdered(events)
    /\ (call_pc = "done" /\ api_requests = 2 /\ api_script[2] # 200)
          => call_result \in {"failure", "raised"}
    /\ (call_pc = "done" /\ call_result = "success")
          => api_script[api_requests] = 200

C3_Witness ==
    /\ call_pc = "done"
    /\ call_kind = "helper"
    /\ api_requests = 2
    /\ refresh_calls = 1
    /\ api_script[1] = 401
    /\ api_script[2] = 401
    /\ call_result = "failure"
    /\ events = <<"api_send", "api_return", "refresh_begin", "token_send",
                  "token_return", "refresh_end", "api_send", "api_return">>

(* ======================================================================= *)
(*        Authorization flow: QuickBooksAuthHelper.authenticate            *)
(* ======================================================================= *)

\* _random_state(): the n-th value drawn; two draws never collide.
RandomState(n) == <<"nonce1", "nonce2", "nonce3", "nonce4", "nonce5">>[n]

\* self.state of the first helper object, the nonce put into the consent URL.
Nonce == RandomState(1)

\* self._redirect_path
RedirectPath == "/callback"

\* A request parameter that is absent: q.get(name, [None])[0].
Absent == "None"

\* The state values of the consent URLs built before the current one.
EarlierStates ==
    {issued[i].state : i \in 1..(Len(issued) - 1)}

\* Requests that may reach the listener: one to another path, and callbacks
\* on the redirect path with or without a code, with the state of this
\* flow, of an earlier one or a forged one, each code coming with its
\* realmId.
Requests ==
    { [path |-> "/favicon.ico", code |-> Absent, state |-> Absent, realmId |-> Absent] }
    \cup
    { [path |-> RedirectPath, code |-> k[1], state |-> k[2],
       realmId |-> IF k[1] = "code1" THEN "realm1"
                   ELSE IF k[1] = "code2" THEN "realm2" ELSE Absent]
      : k \in {<<"code1", helper_state>>, <<"code2", helper_state>>,
               <<Absent, helper_state>>, <<"code1", "forged">>}
              \cup {<<"code1", st>> : st \in EarlierStates} }

\* _start_local_server: server.auth_code = None, realm_id = None,
\* should_stop = False.
NewServer == [auth_code |-> Absent, realm_id |-> Absent, should_stop |-> FALSE]

NoResult == [kind |-> "pending", tokens |-> <<>>]

\* "return None"
ReturnsNone == [kind |-> "none", tokens |-> <<>>]

\* Bodies of a 200 answer of the token endpoint to the code exchange.
ExchangeBodies ==
    { [access_token |-> PyStr("at1"), refresh_token |-> PyStr("rt1")],
      [access_token |-> PyStr("at1")] }

\* A helper object has been made (self.state drawn) and authenticate() has
\* run _start_local_server() and opened the consent URL: the serve thread
\* is about to test its loop condition, the caller polls.
AuthInit ==
    /\ server = NewServer
    /\ pending = <<>>
    /\ handlers = <<>>
    /\ serve_pc = <<"check">>
    /\ requests_made = 0
    /\ mismatch_denied = FALSE
    /\ main_pc = "poll"
    /\ timed_out = FALSE
    /\ seen_accepted = FALSE
    /\ code = Absent
    /\ helper_realm_id = Absent
    /\ exchanges = 0
    /\ exchange_resp = "none"
    /\ auth_result = NoResult
    /\ process = 1
    /\ invocations = 1
    /\ helper_state = Nonce
    /\ issued = <<[call |-> 1, process |-> 1, state |-> Nonce]>>
    /\ outcomes = {}
    /\ token_file \in {FileMissing, HelperSaveTokens([access_token |-> PyStr("at0"),
                                                     refresh_token |-> PyStr("rt0"),
                                                     realm_id |-> PyStr("realm0")])}
    /\ file_before = token_file
    /\ client = ClientUnset
    /\ last_write = NoWrite
    /\ last_load = NoLoad

\* A browser (or anything else) connects to the listener and sends a GET.
RequestArrives ==
    /\ requests_made < MaxRequests
    /\ requests_made' = requests_made + 1
    /\ \E req \in Requests : pending' = Append(pending, req)
    /\ UNCHANGED <<server, handlers, serve_pc, mismatch_denied>>
    /\ UNCHANGED <<flowVars, histVars, storeVars, notAuthVars>>

\* _serve_until_stopped: "while not self.server.should_stop".
ServeCheck(t) ==
    /\ t \in 1..Len(serve_pc)
    /\ serve_pc[t] = "check"
    /\ serve_pc' = [serve_pc EXCEPT ![t] = IF server.should_stop THEN "exited"
                                           ELSE "waiting"]
    /\ UNCHANGED <<server, pending, handlers, mismatch_denied, requests_made>>
    /\ UNCHANGED <<flowVars, histVars, storeVars, notAuthVars>>

\* self.server.handle_request() of a ThreadingTCPServer: accept the next
\* connection, start a thread for it and return to the loop condition.
ServeAccept(t) ==
    /\ t \in 1..Len(serve_pc)
    /\ serve_pc[t] = "waiting"
    /\ Len(pending) > 0
    /\ handlers' = Append(handlers, [req |-> Head(pending), pc |-> "do_GET",
                                     response |-> 0, run |-> 0])
    /\ pending' = Tail(pending)
    /\ serve_pc' = [serve_pc EXCEPT ![t] = "check"]
    /\ UNCHANGED <<server, mismatch_denied, requests_made>>
    /\ UNCHANGED <<flowVars, histVars, storeVars, notAuthVars>>

\* "if not code or state != self.state"
Invalid(req) == req.code = Absent \/ req.state # helper_state

\* The request of handler h is the only one of this flow so far: nothing
\* waits to be accepted and every other handler finished in an earlier flow.
OnlyRequestSoFar(h) ==
    /\ pending = <<>>
    /\ \A g \in 1..Len(handlers) :
          g # h => (handlers[g].pc = "done" /\ handlers[g].run < invocations)

\* A do_GET whose 404 branch would end the serve loop as the 400 branch does.
HandlerGetAnyPathStops(h) ==
    /\ h \in 1..Len(handlers)
    /\ handlers[h].pc = "do_GET"
    /\ LET req == handlers[h].req
       IN  IF req.path # RedirectPath
           THEN /\ handlers' = [handlers EXCEPT ![h].pc = "done", ![h].response = 404,
                                                ![h].run = invocations]
                /\ server' = [server EXCEPT !.should_stop = TRUE]
                /\ UNCHANGED mismatch_denied
           ELSE IF Invalid(req)
           THEN /\ handlers' = [handlers EXCEPT ![h].pc = "done", ![h].response = 400,
                                                ![h].run = invocations]
                /\ server' = [server EXCEPT !.should_stop = TRUE]
                /\ mismatch_denied' =
                      (mismatch_denied
                          \/ (/\ req.code # Absent
                              /\ req.state # helper_state
                              /\ server.auth_code = Absent
                              /\ OnlyRequestSoFar(h)))
           ELSE /\ handlers' = [handlers EXCEPT ![h].pc = "set_realm",
                                                ![h].run = invocations]
                /\ server' = [server EXCEPT !.auth_code = req.code]
                /\ UNCHANGED mismatch_denied
    /\ UNCHANGED <<pending, serve_pc, requests_made>>
    /\ UNCHANGED <<flowVars, histVars, storeVars, notAuthVars>>

\* do_GET up to its first write: 404 for another path; 400 and
\* should_stop = True for a callback without code or with a wrong state;
\* otherwise server.auth_code = code.
HandlerGet(h) ==
    /\ h \in 1..Len(handlers)
    /\ handlers[h].pc = "do_GET"
    /\ LET req == handlers[h].req
       IN  IF req.path # RedirectPath
           THEN /\ handlers' = [handlers EXCEPT ![h].pc = "done", ![h].response = 404,
                                                ![h].run = invocations]
                /\ UNCHANGED <<server, mismatch_denied>>
           ELSE IF Invalid(req)
           THEN /\ handlers' = [handlers EXCEPT ![h].pc = "done", ![h].response = 400,
                                                ![h].run = invocations]
                /\ server' = [server EXCEPT !.should_stop = TRUE]
                /\ mismatch_denied' =
                      (mismatch_denied
                          \/ (/\ req.code # Absent
                              /\ req.state # helper_state
                              /\ server.auth_code = Absent
                              /\ OnlyRequestSoFar(h)))
           ELSE /\ handlers' = [handlers EXCEPT ![h].pc = "set_realm",
                                                ![h].run = invocations]
                /\ server' = [server EXCEPT !.auth_code = req.code]
                /\ UNCHANGED mismatch_denied
    /\ UNCHANGED <<pending, serve_pc, requests_made>>
    /\ UNCHANGED <<flowVars, histVars, storeVars, notAuthVars>>

\* A do_GET that would go on to the stop flag without recording the realm
\* id.
HandlerRealmNotRecorded(h) ==
    /\ h \in 1..Len(handlers)
    /\ handlers[h].pc = "set_realm"
    /\ handlers' = [handlers EXCEPT ![h].pc = "set_stop"]
    /\ UNCHANGED <<server, pending, serve_pc, mismatch_denied, requests_made>>
    /\ UNCHANGED <<flowVars, histVars, storeVars, notAuthVars>>

\* do_GET: self.server.realm_id = realm_id
HandlerSetRealm(h) ==
    /\ h \in 1..Len(handlers)
    /\ handlers[h].pc = "set_realm"
    /\ server' = [server EXCEPT !.realm_id = handlers[h].req.realmId]
    /\ handlers' = [handlers EXCEPT ![h].pc = "set_stop"]
    /\ UNCHANGED <<pending, serve_pc, mismatch_denied, requests_made>>
    /\ UNCHANGED <<flowVars, histVars, storeVars, notAuthVars>>

\* do_GET: the confirmation page, then self.server.should_stop = True
HandlerSetStop(h) ==
    /\ h \in 1..Len(handlers)
    /\ handlers[h].pc = "set_stop"
    /\ server' = [server EXCEPT !.should_stop = TRUE]
    /\ handlers' = [handlers EXCEPT ![h].pc = "done", ![h].response = 200]
    /\ UNCHANGED <<pending, serve_pc, mismatch_denied, requests_made>>
    /\ UNCHANGED <<flowVars, histVars, storeVars, notAuthVars>>

\* The handlers of this call whose request passed the code and state checks
\* and which have set should_stop.
AcceptedAndStopped ==
    {h \in 1..Len(handlers) : /\ handlers[h].run = invocations
                              /\ handlers[h].pc = "done"
                              /\ handlers[h].response = 200}

\* The poll loop ends because should_stop is set.
PollSeesStop ==
    /\ main_pc = "poll"
    /\ server.should_stop
    /\ main_pc' = "read_code"
    /\ seen_accepted' = (AcceptedAndStopped # {})
    /\ UNCHANGED <<timed_out, code, helper_realm_id, exchanges, exchange_resp,
                   auth_result, outcomes>>
    /\ UNCHANGED <<listenVars, histVars, storeVars, notAuthVars>>

\* A poll loop without the time test: it goes on sleeping.
PollSleepsOn ==
    /\ main_pc = "poll"
    /\ ~server.should_stop
    /\ UNCHANGED vars

\* The poll loop ends because timeout_seconds have passed.
PollTimesOut ==
    /\ main_pc = "poll"
    /\ ~server.should_stop
    /\ main_pc' = "read_code"
    /\ timed_out' = TRUE
    /\ UNCHANGED seen_accepted
    /\ UNCHANGED <<code, helper_realm_id, exchanges, exchange_resp, auth_result,
                   outcomes>>
    /\ UNCHANGED <<listenVars, histVars, storeVars, notAuthVars>>

\* code = getattr(self.server, "auth_code", None)
ReadCode ==
    /\ main_pc = "read_code"
    /\ code' = server.auth_code
    /\ main_pc' = "read_realm"
    /\ UNCHANGED <<timed_out, seen_accepted, helper_realm_id, exchanges, exchange_resp,
                   auth_result, outcomes>>
    /\ UNCHANGED <<listenVars, histVars, storeVars, notAuthVars>>

\* Why a flow that read no code ended: "timeout" when the time ran out and
\* no callback on the redirect path was handled in it, "denied" when a
\* handler of this flow answered 400 and ended the loop.
CauseWithoutCode ==
    LET mine == {h \in 1..Len(handlers) : handlers[h].run = invocations}
    IN  IF timed_out /\ \A h \in mine : handlers[h].req.path # RedirectPath
        THEN "timeout"
        ELSE IF ~timed_out /\ \E h \in mine : handlers[h].response = 400
        THEN "denied"
        ELSE "other"

\* self.realm_id = getattr(self.server, "realm_id", None); then "if not code:
\* return None", else the POST of _exchange_code_for_tokens(code) goes out.
ReadRealm ==
    /\ main_pc = "read_realm"
    /\ helper_realm_id' = server.realm_id
    /\ IF code = Absent
       THEN /\ main_pc' = "done"
            /\ auth_result' = ReturnsNone
            /\ outcomes' = outcomes \cup {[cause |-> CauseWithoutCode,
                                           value |-> ReturnsNone]}
            /\ UNCHANGED exchanges
       ELSE /\ main_pc' = "exchange_wait"
            /\ exchanges' = exchanges + 1
            /\ UNCHANGED <<auth_result, outcomes>>
    /\ UNCHANGED <<timed_out, seen_accepted, code, exchange_resp>>
    /\ UNCHANGED <<listenVars, histVars, storeVars, notAuthVars>>

\* "if tokens and self.realm_id and 'realm_id' not in tokens:
\*      tokens['realm_id'] = self.realm_id"
AddRealm(tokens, realm) ==
    IF DOMAIN tokens # {} /\ realm # Absent /\ "realm_id" \notin DOMAIN tokens
    THEN [k \in (DOMAIN tokens) \cup {"realm_id"} |->
             IF k = "realm_id" THEN PyStr(realm) ELSE tokens[k]]
    ELSE tokens

\* The token endpoint answers the exchange with 200: add the realm id, save,
\* return the tokens.
ExchangeSucceeds ==
    /\ main_pc = "exchange_wait"
    /\ \E body \in ExchangeBodies :
          LET tokens == AddRealm(body, helper_realm_id)
          IN  /\ token_file' = HelperSaveTokens(tokens)
              /\ last_write' = [by |-> "helper", rec |-> tokens]
              /\ auth_result' = [kind |-> "tokens", tokens |-> tokens]
              /\ outcomes' = outcomes \cup
                    {[cause |-> "tokens", value |-> [kind |-> "tokens", tokens |-> tokens]]}
    /\ exchange_resp' = "ok"
    /\ main_pc' = "done"
    /\ UNCHANGED <<timed_out, seen_accepted, code, helper_realm_id, exchanges>>
    /\ UNCHANGED <<listenVars, histVars, client, last_load, notAuthVars>>

\* A failed exchange whose answer would be taken for the tokens and saved.
ExchangeFailsUnchecked ==
    /\ main_pc = "exchange_wait"
    /\ main_pc' = "done"
    /\ exchange_resp' = "status"
    /\ LET tokens == [error |-> PyStr("invalid_grant")]
       IN  /\ token_file' = HelperSaveTokens(tokens)
           /\ last_write' = [by |-> "helper", rec |-> tokens]
           /\ auth_result' = [kind |-> "tokens", tokens |-> tokens]
           /\ outcomes' = outcomes \cup
                 {[cause |-> "tokens", value |-> [kind |-> "tokens", tokens |-> tokens]]}
    /\ UNCHANGED <<timed_out, seen_accepted, code, helper_realm_id, exchanges>>
    /\ UNCHANGED <<listenVars, histVars, client, last_load, notAuthVars>>

\* The token endpoint answers with another status, or the request raises:
\* _exchange_code_for_tokens returns None, nothing is saved, authenticate
\* returns None.
ExchangeFails ==
    /\ main_pc = "exchange_wait"
    /\ main_pc' = "done"
    /\ exchange_resp' \in {"status", "error"}
    /\ auth_result' = ReturnsNone
    /\ outcomes' = outcomes \cup {[cause |-> "exchange", value |-> ReturnsNone]}
    /\ UNCHANGED <<timed_out, seen_accepted, code, helper_realm_id, exchanges>>
    /\ UNCHANGED <<listenVars, histVars, storeVars, notAuthVars>>

AuthNext ==
    \/ RequestArrives
    \/ \E t \in 1..MaxRuns : ServeCheck(t)
    \/ \E t \in 1..MaxRuns : ServeAccept(t)
    \/ \E h \in 1..MaxRequests : HandlerGet(h)
    \/ \E h \in 1..MaxRequests : HandlerSetRealm(h)
    \/ \E h \in 1..MaxRequests : HandlerSetStop(h)
    \/ PollSeesStop
    \/ PollTimesOut
    \/ ReadCode
    \/ ReadRealm
    \/ ExchangeSucceeds
    \/ ExchangeFails

\* What a new call of authenticate() sets before it polls.
FlowStarts ==
    /\ server' = NewServer
    /\ main_pc' = "poll"
    /\ timed_out' = FALSE
    /\ seen_accepted' = FALSE
    /\ code' = Absent
    /\ exchanges' = 0
    /\ exchange_resp' = "none"
    /\ auth_result' = NoResult
    /\ mismatch_denied' = FALSE
    /\ invocations' = invocations + 1
    /\ file_before' = token_file

\* authenticate() is called again on the same helper object and the new
\* listener can bind: a new server and serve thread, the same self.state in
\* the consent URL; the threads of the earlier call go on as they were.
AuthenticateAgain ==
    /\ main_pc = "done"
    /\ invocations < MaxRuns
    /\ FlowStarts
    /\ serve_pc' = Append(serve_pc, "check")
    /\ issued' = Append(issued, [call |-> invocations + 1, process |-> process,
                                 state |-> helper_state])
    /\ UNCHANGED <<pending, handlers, requests_made, helper_realm_id, process,
                   helper_state, outcomes>>
    /\ UNCHANGED <<storeVars, notAuthVars>>

\* authenticate() is called again on the same helper object and the bind
\* fails, the listener of the earlier call never having been closed:
\* _start_local_server raises OSError.
AuthenticateAgainBindFails ==
    /\ main_pc = "done"
    /\ invocations < MaxRuns
    /\ invocations' = invocations + 1
    /\ auth_result' = [kind |-> "raised", tokens |-> <<>>]
    /\ outcomes' = outcomes \cup {[cause |-> "bind",
                                   value |-> [kind |-> "raised", tokens |-> <<>>]]}
    /\ exchanges' = 0
    /\ exchange_resp' = "none"
    /\ UNCHANGED <<main_pc, timed_out, seen_accepted, code, helper_realm_id>>
    /\ UNCHANGED <<listenVars, process, helper_state, issued, file_before>>
    /\ UNCHANGED <<storeVars, notAuthVars>>

\* The program is run again with --authenticate: a new process, a new
\* helper object with a new self.state; of the earlier run only the token
\* file is left.
ProgramRunAgain ==
    /\ main_pc = "done"
    /\ invocations < MaxRuns
    /\ FlowStarts
    /\ process' = process + 1
    /\ helper_state' = RandomState(process + 1)
    /\ issued' = Append(issued, [call |-> invocations + 1, process |-> process + 1,
                                 state |-> RandomState(process + 1)])
    /\ serve_pc' = <<"check">>
    /\ pending' = <<>>
    /\ handlers' = <<>>
    /\ helper_realm_id' = Absent
    /\ UNCHANGED <<requests_made, outcomes>>
    /\ UNCHANGED <<storeVars, notAuthVars>>

AuthRunsNext ==
    \/ RequestArrives
    \/ \E t \in 1..MaxRuns : ServeCheck(t)
    \/ \E t \in 1..MaxRuns : ServeAccept(t)
    \/ \E h \in 1..MaxRequests : HandlerGet(h)
    \/ \E h \in 1..MaxRequests : HandlerSetRealm(h)
    \/ \E h \in 1..MaxRequests : HandlerSetStop(h)
    \/ PollSeesStop
    \/ PollTimesOut
    \/ ReadCode
    \/ ReadRealm
    \/ ExchangeSucceeds
    \/ ExchangeFails
    \/ ProgramRunAgain
    \/ AuthenticateAgain
    \/ AuthenticateAgainBindFails

\* No authorization flow is running (used by the other specifications).
AuthIdle ==
    /\ server = NewServer
    /\ pending = <<>>
    /\ handlers = <<>>
    /\ serve_pc = <<>>
    /\ requests_made = 0
    /\ mismatch_denied = FALSE
    /\ main_pc = "done"
    /\ timed_out = FALSE
    /\ seen_accepted = FALSE
    /\ code = Absent
    /\ helper_realm_id = Absent
    /\ exchanges = 0
    /\ exchange_resp = "none"
    /\ auth_result = NoResult
    /\ process = 1
    /\ invocations = 0
    /\ helper_state = Nonce
    /\ issued = <<>>
    /\ outcomes = {}
    /\ file_before = FileMissing

(* ----------------------------- C1 -------------------------------------- *)

\* C1: once a callback on the redirect path whose state differs from the
\* nonce has been rejected, the flow is denied: no authorization code is
\* captured or exchanged and authenticate() returns no tokens, whatever
\* requests reach the listener afterwards.  (mismatch_denied is the case
\* where that callback is the first request and every other one arrives
\* after its rejection.)
C1_StateMismatchDenies ==
    mismatch_denied
        => /\ server.auth_code = Absent
           /\ exchanges = 0
           /\ auth_result.kind # "tokens"

(* ----------------------------- C22 ------------------------------------- *)

\* Only requests to other paths have been handled so far.
OnlyOtherPaths ==
    \A h \in 1..Len(handlers) : handlers[h].req.path # RedirectPath

\* The do_GET step of handler h, when its request is not on the redirect
\* path, answers 404 and changes neither the server's fields nor the serve
\* loop.
OtherPathStep(h) ==
    (HandlerGet(h) /\ handlers[h].req.path # RedirectPath)
        => /\ handlers'[h].response = 404
           /\ handlers'[h].pc = "done"
           /\ server' = server
           /\ serve_pc' = serve_pc

\* C22: a request to a path other than the redirect path is answered 404
\* and leaves auth_code, realm_id and should_stop as they were; and while
\* only such requests have been handled the stop flag is not set and the
\* serve loop has not ended.
C22_OtherPathNotFound ==
    /\ [][\A h \in 1..MaxRequests : OtherPathStep(h)]_vars
    /\ [](OnlyOtherPaths =>
            /\ ~server.should_stop
            /\ \A t \in 1..Len(serve_pc) : serve_pc[t] # "exited")

\* A request to another path was answered 404, and the callback that was
\* accepted after it was served and captured.
C22_Witness ==
    /\ Len(handlers) = 2
    /\ handlers[1].req.path # RedirectPath
    /\ handlers[1].response = 404
    /\ handlers[2].response = 200
    /\ server.auth_code = "code1"
    /\ server.should_stop

(* ----------------------------- C25 ------------------------------------- *)

\* The steps of the thread that called authenticate().  The poll loop sleeps
\* 0.3 s at a time and tests the clock, and the exchange request has a
\* timeout of 30 s, so the thread is never held up for good.
CallerStep ==
    \/ PollSeesStop
    \/ PollTimesOut
    \/ ReadCode
    \/ ReadRealm
    \/ ExchangeSucceeds
    \/ ExchangeFails

\* No request on the redirect path has reached the listener.
NoCallbackArrived ==
    /\ \A i \in 1..Len(pending) : pending[i].path # RedirectPath
    /\ \A h \in 1..Len(handlers) : handlers[h].req.path # RedirectPath

\* C25: authenticate() returns in the end; and when it has returned without
\* any request on the redirect path having arrived, it ended on the
\* timeout, returned None, started no token exchange and left the token
\* file as it was.
C25_TimeoutTerminates ==
    /\ <>(main_pc = "done")
    /\ []((main_pc = "done" /\ NoCallbackArrived)
            => /\ timed_out
               /\ auth_result = ReturnsNone
               /\ exchanges = 0
               /\ token_file = file_before)

\* Only a request to another path came, it was answered 404, and the call
\* ended on the timeout with the saved record untouched.
C25_Witness ==
    /\ main_pc = "done"
    /\ timed_out
    /\ Len(handlers) = 1
    /\ handlers[1].response = 404
    /\ pending = <<>>
    /\ auth_result = ReturnsNone
    /\ exchanges = 0
    /\ file_before.kind = "object"
    /\ token_file = file_before

(* ----------------------------- C27 ------------------------------------- *)

\* The codes that callbacks passing the checks have recorded in this call.
CapturedCodes ==
    {handlers[h].req.code : h \in {g \in 1..Len(handlers) :
                                      /\ handlers[g].run = invocations
                                      /\ handlers[g].pc \in {"set_realm", "set_stop", "done"}
                                      /\ handlers[g].response # 400
                                      /\ handlers[g].req.path = RedirectPath}}

\* C27: when the caller has seen the stop flag that an accepted callback
\* had set, a code and a realm id are recorded on the server; the caller
\* then reads a recorded code, never None, and sends the token exchange.
C27_CodeRecordedBeforeStop ==
    seen_accepted
        => /\ server.auth_code # Absent
           /\ server.realm_id # Absent
           /\ main_pc \in {"read_realm", "exchange_wait", "done"}
                 => (code # Absent /\ code \in CapturedCodes)
           /\ main_pc \in {"exchange_wait", "done"}
                 => (exchanges = 1 /\ helper_realm_id # Absent)

\* One callback, accepted; the caller saw its stop flag and waits for the
\* answer to the exchange of its code.
C27_Witness ==
    /\ seen_accepted
    /\ Len(handlers) = 1
    /\ handlers[1].response = 200
    /\ main_pc = "exchange_wait"
    /\ code = "code1"
    /\ helper_realm_id = "realm1"

(* ----------------------------- C28 ------------------------------------- *)

\* C28: from the moment should_stop is set until authenticate() has read
\* them, no step changes server.auth_code or server.realm_id.
C28_CapturedStable ==
    [][(server.should_stop /\ main_pc \in {"poll", "read_code", "read_realm"})
          => /\ server'.auth_code = server.auth_code
             /\ server'.realm_id = server.realm_id]_vars

(* ----------------------------- C15 ------------------------------------- *)

\* C15: when the token endpoint answered the code exchange with a status
\* other than 200, or the request failed, authenticate() has returned None,
\* has sent that one exchange request only, and the token file is as it was
\* before the call.
C15_ExchangeFailureIsTerminal ==
    exchange_resp \in {"status", "error"}
        => /\ main_pc = "done"
           /\ auth_result = ReturnsNone
           /\ exchanges = 1
           /\ token_file = file_before

\* A record was persisted before; a code was captured and the exchange was
\* refused.
C15_Witness ==
    /\ exchange_resp = "status"
    /\ code = "code1"
    /\ file_before.kind = "object"
    /\ token_file = file_before
    /\ auth_result = ReturnsNone

(* ----------------------------- C16 ------------------------------------- *)

\* C16: what authenticate() returns after a timeout differs from what it
\* returns after an explicit denial.
C16_TimeoutDistinctFromDenial ==
    \A o1 \in outcomes, o2 \in outcomes :
        (o1.cause = "timeout" /\ o2.cause = "denied") => o1.value # o2.value

(* ----------------------------- C19 ------------------------------------- *)

\* The handlers of this flow that have processed a request on the redirect
\* path.
RedirectHandled ==
    {h \in 1..Len(handlers) : /\ handlers[h].req.path = RedirectPath
                              /\ handlers[h].pc # "do_GET"
                              /\ handlers[h].run = invocations}

\* C19: in one flow at most one request on the redirect path is processed;
\* a request to another path is answered 404 and does not end the serve
\* loop.
C19_AtMostOneCallback ==
    /\ Cardinality(RedirectHandled) <= 1
    /\ \A h \in 1..Len(handlers) :
          (handlers[h].req.path # RedirectPath /\ handlers[h].pc = "done")
              => handlers[h].response = 404
    /\ (\A h \in 1..Len(handlers) : handlers[h].req.path # RedirectPath)
          => ~server.should_stop

(* ----------------------------- C20 ------------------------------------- *)

\* C20: two calls of authenticate() on one helper object never put the same
\* state into their consent URLs, and a callback that carries the state of
\* an earlier call on that object is not accepted.
C20_FreshNoncePerInvocation ==
    /\ \A i \in 1..Len(issued), j \in 1..Len(issued) :
          (i < j /\ issued[i].process = issued[j].process)
              => issued[i].state # issued[j].state
    /\ \A h \in 1..Len(handlers) :
          (/\ handlers[h].pc # "do_GET"
           /\ handlers[h].req.path = RedirectPath
           /\ \E i \in 1..Len(issued) :
                 /\ issued[i].call < handlers[h].run
                 /\ issued[i].process = process
                 /\ issued[i].state = handlers[h].req.state)
              => handlers[h].pc = "done" /\ handlers[h].response = 400

(* ======================================================================= *)
(*      Expense summary: QuickBooksClient.get_project_expenses_summary     *)
(* ======================================================================= *)

\* Project ids that Purchase records refer to.
ExpensePids == {"p1", "p2"}

\* The ProjectRef member of a Purchase: absent, or a dict with 'value' and
\* possibly 'name'.
NoProjectRef == [present |-> FALSE, value |-> None, has_name |-> FALSE, name |-> ""]

ProjectRefs ==
    {NoProjectRef}
    \cup {[present |-> TRUE, value |-> "p1", has_name |-> TRUE, name |-> "Alpha"],
          [present |-> TRUE, value |-> "p2", has_name |-> FALSE, name |-> ""]}

\* The TotalAmt member of a Purchase: absent, or a number.
TotalAmts ==
    {[present |-> FALSE, v |-> 0], [present |-> TRUE, v |-> 10], [present |-> TRUE, v |-> 25]}

\* expense.get('ProjectRef', {}).get('value')
RefValue(expense) ==
    IF expense.ProjectRef.present THEN expense.ProjectRef.value ELSE None

\* expense.get('ProjectRef', {}).get('name', 'Unknown Project')
RefName(expense) ==
    IF expense.ProjectRef.present /\ expense.ProjectRef.has_name
    THEN expense.ProjectRef.name
    ELSE "Unknown Project"

\* float(expense.get('TotalAmt', 0))
Amount(expense) == IF expense.TotalAmt.present THEN expense.TotalAmt.v ELSE 0

\* get_expenses(project_id=pid): the records the query selects, "WHERE
\* ProjectRef = 'pid'" when a pid is given, every Purchase otherwise.
GetExpenses(records, pid) ==
    IF pid = None
    THEN records
    ELSE SelectSeq(records, LAMBDA e : e.ProjectRef.present /\ e.ProjectRef.value = pid)

\* sum(float(expense.get('TotalAmt', 0)) for expense in expenses)
RECURSIVE SumAmounts(_)
SumAmounts(expenses) ==
    IF expenses = <<>> THEN 0
    ELSE Amount(Head(expenses)) + SumAmounts(Tail(expenses))

EmptySummary == [k \in {} |-> 0]

\* A loop body that would overwrite the running total.
FoldOverwritingTotal(summary, expense) ==
    LET key == RefValue(expense)
        old == IF key \in DOMAIN summary
               THEN summary[key]
               ELSE [project_name |-> RefName(expense), expense_count |-> 0,
                     total_amount |-> 0, expenses |-> <<>>]
        new == [old EXCEPT !.expense_count = @ + 1,
                           !.total_amount = Amount(expense),
                           !.expenses = Append(@, expense)]
    IN  [k \in (DOMAIN summary) \cup {key} |->
            IF k = key THEN new ELSE summary[k]]

\* One iteration of the grouping loop: create the group of the record's
\* project id if it is new, then count, add and append.
Fold(summary, expense) ==
    LET key == RefValue(expense)
        old == IF key \in DOMAIN summary
               THEN summary[key]
               ELSE [project_name |-> RefName(expense), expense_count |-> 0,
                     total_amount |-> 0, expenses |-> <<>>]
        new == [old EXCEPT !.expense_count = @ + 1,
                           !.total_amount = @ + Amount(expense),
                           !.expenses = Append(@, expense)]
    IN  [k \in (DOMAIN summary) \cup {key} |->
            IF k = key THEN new ELSE summary[k]]

\* The "elif project_id" branch: one group holding every fetched record.
SingleSummary(pid, expenses) ==
    IF expenses = <<>>
    THEN EmptySummary
    ELSE [k \in {pid} |->
             [project_name |-> RefName(expenses[1]),
              expense_count |-> Len(expenses),
              total_amount |-> SumAmounts(expenses),
              expenses |-> expenses]]

\* Nothing has been asked of the summary yet; the backend holds no Purchase.
SumInit ==
    /\ ledger = <<>>
    /\ sum_project_id = None
    /\ sum_project_ids = <<>>
    /\ sum_pc = "setup"
    /\ all_expenses = <<>>
    /\ fetch_i = 1
    /\ group_i = 1
    /\ project_expenses = EmptySummary

\* A Purchase is recorded at the backend before the summary is asked for.
PurchasePosted ==
    /\ sum_pc = "setup"
    /\ Len(ledger) < MaxExpenses
    /\ \E ref \in ProjectRefs, amt \in TotalAmts :
          ledger' = Append(ledger, [Id |-> Len(ledger) + 1, ProjectRef |-> ref,
                                    TotalAmt |-> amt])
    /\ UNCHANGED <<sum_project_id, sum_project_ids, sum_pc, all_expenses, fetch_i,
                   group_i, project_expenses>>
    /\ UNCHANGED notSumVars

\* project_ids lists tried.
ProjectIdLists == UNION {[1..n -> ExpensePids] : n \in 1..MaxIds}

\* get_project_expenses_summary(project_ids=pids), pids not empty: the call
\* enters its fetch loop.
SummaryOfIds ==
    /\ sum_pc = "setup"
    /\ \E pids \in ProjectIdLists : sum_project_ids' = pids
    /\ sum_pc' = "fetch"
    /\ UNCHANGED <<ledger, sum_project_id, all_expenses, fetch_i, group_i,
                   project_expenses>>
    /\ UNCHANGED notSumVars

\* "for pid in project_ids: all_expenses.extend(self.get_expenses(pid))";
\* after the last one the grouping loop starts, or with nothing fetched the
\* empty dict is returned.
FetchForId ==
    /\ sum_pc = "fetch"
    /\ LET got == all_expenses \o GetExpenses(ledger, sum_project_ids[fetch_i])
       IN  /\ all_expenses' = got
           /\ IF fetch_i < Len(sum_project_ids)
              THEN fetch_i' = fetch_i + 1 /\ UNCHANGED sum_pc
              ELSE /\ UNCHANGED fetch_i
                   /\ sum_pc' = IF got = <<>> THEN "done" ELSE "group"
    /\ UNCHANGED <<ledger, sum_project_id, sum_project_ids, group_i, project_expenses>>
    /\ UNCHANGED notSumVars

\* get_project_expenses_summary(project_id=pid): fetch, and return {} or the
\* single group.
SummaryOfOne ==
    /\ sum_pc = "setup"
    /\ \E pid \in ExpensePids :
          LET expenses == GetExpenses(ledger, pid)
          IN  /\ sum_project_id' = pid
              /\ all_expenses' = expenses
              /\ project_expenses' = SingleSummary(pid, expenses)
    /\ sum_pc' = "done"
    /\ UNCHANGED <<ledger, sum_project_ids, fetch_i, group_i>>
    /\ UNCHANGED notSumVars

\* get_project_expenses_summary(): fetch every Purchase; return {} when
\* there is none, else enter the grouping loop.
SummaryOfAll ==
    /\ sum_pc = "setup"
    /\ LET expenses == GetExpenses(ledger, None)
       IN  /\ all_expenses' = expenses
           /\ sum_pc' = IF expenses = <<>> THEN "done" ELSE "group"
    /\ UNCHANGED <<ledger, sum_project_id, sum_project_ids, fetch_i, group_i,
                   project_expenses>>
    /\ UNCHANGED notSumVars

\* One iteration of "for expense in all_expenses"; the dict is returned
\* after the last.
FoldExpense ==
    /\ sum_pc = "group"
    /\ project_expenses' = Fold(project_expenses, all_expenses[group_i])
    /\ IF group_i < Len(all_expenses)
       THEN group_i' = group_i + 1 /\ UNCHANGED sum_pc
       ELSE sum_pc' = "done" /\ UNCHANGED group_i
    /\ UNCHANGED <<ledger, sum_project_id, sum_project_ids, all_expenses, fetch_i>>
    /\ UNCHANGED notSumVars

SumNext ==
    \/ PurchasePosted
    \/ SummaryOfIds
    \/ FetchForId
    \/ SummaryOfOne
    \/ SummaryOfAll
    \/ FoldExpense

\* No summary is being computed (used by the other specifications).
SumIdle ==
    /\ ledger = <<>>
    /\ sum_project_id = None
    /\ sum_project_ids = <<>>
    /\ sum_pc = "done"
    /\ all_expenses = <<>>
    /\ fetch_i = 1
    /\ group_i = 1
    /\ project_expenses = EmptySummary

(* ----------------------------- C11 ------------------------------------- *)

\* The TotalAmt of the records of a list, added up from the last to the
\* first (a missing TotalAmt counting as 0).
RECURSIVE TotalOf(_, _)
TotalOf(records, n) ==
    IF n = 0 THEN 0
    ELSE (IF records[n].TotalAmt.present THEN records[n].TotalAmt.v ELSE 0)
            + TotalOf(records, n - 1)

\* How often the record with this Id occurs in a list.
Occurrences(records, id) == Cardinality({j \in 1..Len(records) : records[j].Id = id})

\* The groups that hold the record with this Id.
GroupsHolding(id) ==
    {k \in DOMAIN project_expenses : Occurrences(project_expenses[k].expenses, id) > 0}

\* C11: at every moment each group's total_amount is the sum of TotalAmt
\* over the records the group holds and its expense_count their number; and
\* in the summary returned every fetched record is in exactly one group, as
\* often as it was fetched.
C11_TotalsAndCounts ==
    /\ \A k \in DOMAIN project_expenses :
          LET g == project_expenses[k]
          IN  /\ g.total_amount = TotalOf(g.expenses, Len(g.expenses))
              /\ g.expense_count = Len(g.expenses)
    /\ sum_pc = "done" =>
          \A i \in 1..Len(all_expenses) :
              LET id == all_expenses[i].Id
              IN  /\ Cardinality(GroupsHolding(id)) = 1
                  /\ \A k \in GroupsHolding(id) :
                        Occurrences(project_expenses[k].expenses, id)
                            = Occurrences(all_expenses, id)

\* A summary of three records in two groups, one of them without TotalAmt.
C11_Witness ==
    /\ sum_pc = "done"
    /\ sum_project_ids = <<>>
    /\ sum_project_id = None
    /\ DOMAIN project_expenses = {"p1", "p2"}
    /\ project_expenses["p1"].expense_count = 2
    /\ project_expenses["p1"].total_amount = 35
    /\ project_expenses["p2"].expense_count = 1
    /\ project_expenses["p2"].total_amount = 0

(* ----------------------------- C12 ------------------------------------- *)

\* C12: in the summary returned, every record without a project reference
\* is in the group of the key "unknown", whose display name is "Unknown
\* Project"; and nothing fetched gives the empty map.
C12_UnknownSentinel ==
    sum_pc = "done" =>
        /\ \A i \in 1..Len(all_expenses) :
              ~all_expenses[i].ProjectRef.present =>
                  /\ "unknown" \in DOMAIN project_expenses
                  /\ GroupsHolding(all_expenses[i].Id) = {"unknown"}
                  /\ project_expenses["unknown"].project_name = "Unknown Project"
        /\ all_expenses = <<>> => project_expenses = EmptySummary

(* ======================================================================= *)
(*          Repeated refresh: QuickBooksAuthHelper.refresh_tokens          *)
(* ======================================================================= *)

NoBody == [k \in {} |-> PyNone]

\* Token files refresh_tokens may find: none, one that is no JSON, or a
\* record the helper saved: an access token, with or without a refresh
\* token and a realm id.
RefreshFiles ==
    {FileMissing, FileGarbage}
        \cup {HelperSaveTokens(d) :
                 d \in {t \in TokenDicts : /\ "expires_in" \notin DOMAIN t
                                          /\ "access_token" \in DOMAIN t
                                          /\ \A k \in DOMAIN t : t[k] # PyNone}}

\* Nothing has been refreshed yet.
RefreshInit ==
    /\ token_file \in RefreshFiles
    /\ client = ClientUnset
    /\ last_write = NoWrite
    /\ last_load = NoLoad
    /\ rf_pc = "idle"
    /\ rf_calls = 0
    /\ rf_sent = 0
    /\ rf_outcome = "never"
    /\ rf_before = token_file
    /\ rf_body = NoBody
    /\ rf_first = token_file

\* refresh_tokens() up to its POST: load the record; without a record or
\* without a 'refresh_token' in it return None, else send the refresh grant.
RefreshTokensStart ==
    /\ rf_pc = "idle"
    /\ rf_calls < MaxRefreshes
    /\ rf_calls' = rf_calls + 1
    /\ rf_before' = token_file
    /\ rf_body' = NoBody
    /\ IF NoRefreshToken(HelperLoadTokens(token_file))
       THEN /\ rf_outcome' = "none"
            /\ rf_sent' = 0
            /\ UNCHANGED rf_pc
       ELSE /\ rf_outcome' = "running"
            /\ rf_sent' = 1
            /\ rf_pc' = "token_wait"
    /\ UNCHANGED rf_first
    /\ UNCHANGED <<storeVars, notRefreshVars>>

\* The token endpoint answers: on 200 carry the realm id forward, save and
\* return the new record; on another status or an exception return None.
RefreshTokensReturn ==
    /\ rf_pc = "token_wait"
    /\ rf_pc' = "idle"
    /\ \E resp \in TokenResponses :
          IF resp.status # 200
          THEN /\ rf_outcome' = "none"
               /\ UNCHANGED <<token_file, last_write, rf_body>>
          ELSE LET tokens == HelperLoadTokens(rf_before).d
                   new_tokens == CarryRealm(resp.body, tokens)
               IN  /\ token_file' = HelperSaveTokens(new_tokens)
                   /\ last_write' = [by |-> "helper", rec |-> new_tokens]
                   /\ rf_body' = resp.body
                   /\ rf_outcome' = "tokens"
    /\ UNCHANGED <<rf_calls, rf_sent, rf_before, rf_first>>
    /\ UNCHANGED <<client, last_load, notRefreshVars>>

RefreshNext == RefreshTokensStart \/ RefreshTokensReturn

\* No refresh has been asked for (used by the other specifications).
RefreshIdle ==
    /\ rf_pc = "idle"
    /\ rf_calls = 0
    /\ rf_sent = 0
    /\ rf_outcome = "never"
    /\ rf_before = FileMissing
    /\ rf_body = NoBody
    /\ rf_first = FileMissing

(* ----------------------------- C13 ------------------------------------- *)

\* The file holds no record, or a record without a refresh credential.
NoRefreshCredentialIn(file) ==
    file.kind # "object" \/ "refresh_token" \notin DOMAIN file.doc

HasRealm(file) == file.kind = "object" /\ "realm_id" \in DOMAIN file.doc

\* C14: starting from a record with a realm id, the persisted record has a
\* realm id after any number of refreshes: after a successful one that of
\* the response if it has one and else that of the record before; and a
\* failed refresh leaves the file as it was.
C14_RealmCarriedForward ==
    HasRealm(rf_first)
        => /\ HasRealm(token_file)
           /\ rf_outcome = "tokens" =>
                 token_file.doc["realm_id"] =
                     IF "realm_id" \in DOMAIN rf_body
                     THEN [lit |-> "string", text |-> rf_body["realm_id"].v]
                     ELSE rf_before.doc["realm_id"]
           /\ rf_outcome = "none" => token_file = rf_before

\* Two successful refreshes in a row, the second answer without a realm id,
\* the first with one.
C14_Witness ==
    /\ HasRealm(rf_first)
    /\ rf_calls = 2
    /\ rf_outcome = "tokens"
    /\ "realm_id" \notin DOMAIN rf_body
    /\ rf_before.doc["realm_id"] = [lit |-> "string", text |-> "realm2"]
    /\ token_file.doc["realm_id"] = [lit |-> "string", text |-> "realm2"]

(* ----------------------------- C17 ------------------------------------- *)

\* C17: every record the helper has persisted that holds an access
\* credential also holds a refresh credential, or a marker in its place (a
\* 'refresh_token' member of any value, null included, counts).
C17_AccessImpliesRefresh ==
    (/\ last_write.by = "helper"
     /\ token_file.kind = "object"
     /\ "access_token" \in DOMAIN token_file.doc)
        => "refresh_token" \in DOMAIN token_file.doc

(* ======================================================================= *)
(*   A save step by step: _save_tokens of helper and client, and a reader  *)
(* ======================================================================= *)

\* Records handed to the helper's _save_tokens.
SavedDicts ==
    { [access_token |-> PyStr("at1"), refresh_token |-> PyStr("rt1"),
       realm_id |-> PyStr("realm1")],
      [access_token |-> PyStr("at2"), refresh_token |-> PyStr("rt2"),
       realm_id |-> PyStr("realm1")] }

\* What the two _save_tokens may be writing.
SaveTargets ==
    {HelperSaveTokens(d) : d \in SavedDicts}
        \cup {ClientSaveTokens([access_token |-> PyStr("at1"),
                                refresh_token |-> PyStr("rt1"),
                                realm_id |-> PyStr("realm1")], now) : now \in Timestamps}

\* The file holds a complete record; no save is running.
SaveInit ==
    /\ token_file \in SaveTargets
    /\ client = ClientUnset
    /\ last_write = NoWrite
    /\ last_load = NoLoad
    /\ sv_pc = "idle"
    /\ sv_saves = 0
    /\ sv_old = token_file
    /\ sv_target = token_file
    /\ sv_seen = [file |-> token_file, old |-> token_file, target |-> token_file]

\* "with open(self.token_file, 'w') as f": the file is created or cut to
\* length 0, and an empty file is not JSON.
SaveOpens ==
    /\ sv_pc = "idle"
    /\ sv_saves < MaxSaves
    /\ sv_saves' = sv_saves + 1
    /\ \E target \in SaveTargets :
          /\ target # token_file
          /\ sv_target' = target
    /\ sv_old' = token_file
    /\ token_file' = FileGarbage
    /\ sv_pc' = "writing"
    /\ UNCHANGED <<client, last_write, last_load, sv_seen>>
    /\ UNCHANGED notSaveVars

\* "json.dump(tokens, f, indent=2)" and the end of the with block: the text
\* of the record reaches the file.
SaveDumps ==
    /\ sv_pc = "writing"
    /\ token_file' = sv_target
    /\ last_write' = [by |-> "save", rec |-> <<>>]
    /\ sv_pc' = "idle"
    /\ UNCHANGED <<client, last_load, sv_saves, sv_old, sv_target, sv_seen>>
    /\ UNCHANGED notSaveVars

\* The process is stopped inside the with block (a signal, a power cut, an
\* exception of json.dump): the file stays as open() left it.
SaveInterrupted ==
    /\ sv_pc = "writing"
    /\ sv_pc' = "killed"
    /\ UNCHANGED <<storeVars, sv_saves, sv_old, sv_target, sv_seen>>
    /\ UNCHANGED notSaveVars

\* Another process reads the file (_load_tokens of a helper or a client),
\* at any moment.
ReaderLoads ==
    /\ sv_seen' = [file |-> token_file, old |-> sv_old, target |-> sv_target]
    /\ sv_seen' # sv_seen
    /\ UNCHANGED <<storeVars, sv_pc, sv_saves, sv_old, sv_target>>
    /\ UNCHANGED notSaveVars

\* The next run of the program after one that was stopped.
ProcessRestarted ==
    /\ sv_pc = "killed"
    /\ sv_pc' = "idle"
    /\ UNCHANGED <<storeVars, sv_saves, sv_old, sv_target, sv_seen>>
    /\ UNCHANGED notSaveVars

SaveNext ==
    \/ SaveOpens
    \/ SaveDumps
    \/ SaveInterrupted
    \/ ReaderLoads
    \/ ProcessRestarted

\* No save is being examined (used by the other specifications).
SaveIdle ==
    /\ sv_pc = "idle"
    /\ sv_saves = 0
    /\ sv_old = FileMissing
    /\ sv_target = FileMissing
    /\ sv_seen = [file |-> FileMissing, old |-> FileMissing, target |-> FileMissing]

(* ----------------------------- C18 ------------------------------------- *)

\* C18: whatever a reader reads, while a save runs or after one was
\* interrupted, is the complete record from before that save or the
\* complete record the save writes.
C18_NeverPartiallyWritten ==
    sv_seen.file \in {sv_seen.old, sv_seen.target}

(* ======================================================================= *)
(*      Getting an access token: QuickBooksAuthHelper.ensure_access_token  *)
(* ======================================================================= *)

\* Nothing returned yet.
NeverReturned == [kind |-> "never", value |-> PyNone]

\* A record was saved some time ago; no call yet.
EnsureInit ==
    /\ token_file \in RefreshFiles
    /\ client = ClientUnset
    /\ last_write = NoWrite
    /\ last_load = NoLoad
    /\ en_calls = 0
    /\ en_expired = {}
    /\ en_posts = 0
    /\ en_seen = token_file
    /\ en_returned = NeverReturned

\* Time passes: the lifetime of the stored access token is over, the API
\* answers 401 to it from now on.
AccessTokenExpires ==
    /\ token_file.kind = "object"
    /\ "access_token" \in DOMAIN token_file.doc
    /\ token_file.doc["access_token"].text \notin en_expired
    /\ en_expired' = en_expired \cup {token_file.doc["access_token"].text}
    /\ UNCHANGED <<en_calls, en_posts, en_seen, en_returned>>
    /\ UNCHANGED <<storeVars, notEnsureVars>>

\* Records a new authorization or a refresh leaves in the token file.
RenewedDicts ==
    { [access_token |-> PyStr("at2"), refresh_token |-> PyStr("rt2"),
       realm_id |-> PyStr("realm1")],
      [access_token |-> PyStr("at3"), refresh_token |-> PyStr("rt3"),
       realm_id |-> PyStr("realm1")] }

\* authenticate() or refresh_tokens() has been run and has saved a record
\* with an access token not handed out before.
TokensRenewed ==
    /\ \E d \in RenewedDicts :
          /\ HelperSaveTokens(d) # token_file
          /\ d.access_token.v \notin en_expired
          /\ token_file' = HelperSaveTokens(d)
          /\ last_write' = [by |-> "helper", rec |-> d]
    /\ UNCHANGED <<en_calls, en_expired, en_posts, en_seen, en_returned>>
    /\ UNCHANGED <<client, last_load, notEnsureVars>>

\* tokens.get("access_token")
EnsureReturns(tokens) == DictGet(tokens, "access_token")

\* ensure_access_token(): load the record; None when there is none (or an
\* empty one), else the record's access_token.  No request is sent and
\* nothing is saved.
EnsureAccessToken ==
    /\ en_calls < MaxEnsures
    /\ en_calls' = en_calls + 1
    /\ en_seen' = token_file
    /\ en_posts' = 0
    /\ LET loaded == HelperLoadTokens(token_file)
       IN  IF loaded.kind # "dict" \/ DOMAIN loaded.d = {}
           THEN en_returned' = [kind |-> "value", value |-> PyNone]
           ELSE en_returned' = [kind |-> "value", value |-> EnsureReturns(loaded.d)]
    /\ UNCHANGED en_expired
    /\ UNCHANGED <<storeVars, notEnsureVars>>

EnsureNext ==
    \/ AccessTokenExpires
    \/ TokensRenewed
    \/ EnsureAccessToken

\* ensure_access_token has not been called (used by the other
\* specifications).
EnsureIdle ==
    /\ en_calls = 0
    /\ en_expired = {}
    /\ en_posts = 0
    /\ en_seen = FileMissing
    /\ en_returned = NeverReturned

(* ----------------------------- C21 ------------------------------------- *)

\* The file holds a record with a refresh credential.
UsableRefreshIn(file) ==
    /\ file.kind = "object"
    /\ "refresh_token" \in DOMAIN file.doc
    /\ file.doc["refresh_token"].lit = "string"

\* C21: ensure_access_token() returns None when no record is stored, and
\* while the stored record holds a usable refresh credential it does not
\* return an access token whose lifetime is over.
C21_NeverReturnsExpired ==
    en_returned.kind = "value"
        => /\ en_seen.kind # "object" => en_returned.value = PyNone
           /\ UsableRefreshIn(en_seen) =>
                 ~(/\ en_returned.value.t = "str"
                   /\ en_returned.value.v \in en_expired)

(* ======================================================================= *)
(*          The query of get_expenses: QuickBooksClient.get_expenses       *)
(* ======================================================================= *)

\* The pieces a query string is made of: a keyword piece, or a comparison
\* of a field with a quoted value.
Keyword(text) == [kind |-> "keyword", text |-> text, op |-> "", value |-> ""]

Comparison(field, op, value) ==
    [kind |-> "comparison", text |-> field, op |-> op, value |-> value]

\* Values tried for project_id, start_date and end_date: None, the empty
\* string and two values.
ProjectIdArgs == {PyNone, PyStr(""), PyStr("p1"), PyStr("p2")}

DateArgs == {PyNone, PyStr(""), PyStr("2024-01-01"), PyStr("2024-12-31")}

\* get_expenses has been called with some arguments.
QueryInit ==
    /\ q_project_id \in ProjectIdArgs
    /\ q_start_date \in DateArgs
    /\ q_end_date \in DateArgs
    /\ q_pc = "start"
    /\ q_query = <<>>

\* A test that would take every query to hold a WHERE already.
HasWhereAlways(query) == TRUE

\* "'WHERE' in query"
HasWhere(query) == \E i \in 1..Len(query) : query[i] = Keyword("WHERE")

\* "if project_id: query += f" WHERE ProjectRef = '{project_id}'""
WithProject(query, pid) ==
    IF Truthy(pid)
    THEN query \o <<Keyword("WHERE"), Comparison("ProjectRef", "=", pid.v)>>
    ELSE query

\* "if start_date or end_date:": " AND" or " WHERE", then the one or two
\* date comparisons.
WithDates(query, from, to) ==
    IF Truthy(from) \/ Truthy(to)
    THEN LET joined == query \o <<IF HasWhere(query) THEN Keyword("AND")
                                   ELSE Keyword("WHERE")>>
         IN  IF Truthy(from) /\ Truthy(to)
             THEN joined \o <<Comparison("TxnDate", ">=", from.v), Keyword("AND"),
                              Comparison("TxnDate", "<=", to.v)>>
             ELSE IF Truthy(from)
             THEN joined \o <<Comparison("TxnDate", ">=", from.v)>>
             ELSE joined \o <<Comparison("TxnDate", "<=", to.v)>>
    ELSE query

\* The query get_expenses sends for its arguments.
BuildQuery(pid, from, to) ==
    WithDates(WithProject(<<Keyword("SELECT * FROM Purchase")>>, pid), from, to)
        \o <<Keyword("ORDER BY TxnDate DESC")>>

\* get_expenses up to its loop: the query is built.
GetExpensesQuery ==
    /\ q_pc = "start"
    /\ q_pc' = "built"
    /\ q_query' = BuildQuery(q_project_id, q_start_date, q_end_date)
    /\ UNCHANGED <<q_project_id, q_start_date, q_end_date>>
    /\ UNCHANGED notQueryVars

QueryNext == GetExpensesQuery

\* get_expenses has not been called (used by the other specifications).
QueryIdle ==
    /\ q_project_id = PyNone
    /\ q_start_date = PyNone
    /\ q_end_date = PyNone
    /\ q_pc = "start"
    /\ q_query = <<>>

(* ----------------------------- C23 ------------------------------------- *)

\* The positions holding any comparison.
AllClauses == {i \in 1..Len(q_query) : q_query[i].kind = "comparison"}

\* The comparisons the arguments ask for (an argument is supplied when it
\* is neither None nor empty).
WantedClauses ==
    (IF Truthy(q_project_id) THEN {Comparison("ProjectRef", "=", q_project_id.v)} ELSE {})
    \cup (IF Truthy(q_start_date) THEN {Comparison("TxnDate", ">=", q_start_date.v)} ELSE {})
    \cup (IF Truthy(q_end_date) THEN {Comparison("TxnDate", "<=", q_end_date.v)} ELSE {})

\* C23: the query built holds exactly one filter clause for each supplied
\* argument and none for an absent one; with a clause there is one WHERE,
\* right after the SELECT, and the clauses are joined by AND; without any
\* there is no WHERE; the query ends with ORDER BY TxnDate DESC.
C23_QueryClauses ==
    q_pc = "built" =>
        LET n == Cardinality(WantedClauses)
        IN  /\ q_query[1] = Keyword("SELECT * FROM Purchase")
            /\ q_query[Len(q_query)] = Keyword("ORDER BY TxnDate DESC")
            /\ Cardinality(AllClauses) = n
            /\ \A c \in WantedClauses :
                  Cardinality({i \in AllClauses : q_query[i] = c}) = 1
            /\ Len(q_query) = 2 + 2 * n
            /\ \A i \in 2..(Len(q_query) - 1) :
                  q_query[i] = IF i = 2 THEN Keyword("WHERE")
                               ELSE IF i % 2 = 0 THEN Keyword("AND")
                               ELSE q_query[i]
            /\ \A i \in 2..(Len(q_query) - 1) : (i % 2 = 1) <=> (i \in AllClauses)

\* Dates and no project id: the WHERE comes with the dates.
C23_Witness ==
    /\ q_pc = "built"
    /\ q_project_id = PyNone
    /\ q_start_date = PyStr("2024-01-01")
    /\ q_end_date = PyStr("2024-12-31")
    /\ q_query = << Keyword("SELECT * FROM Purchase"), Keyword("WHERE"),
                    Comparison("TxnDate", ">=", "2024-01-01"), Keyword("AND"),
                    Comparison("TxnDate", "<=", "2024-12-31"),
                    Keyword("ORDER BY TxnDate DESC") >>

(* ======================================================================= *)
(*        Lookup by project code: main and _find_project_by_code           *)
(* ======================================================================= *)

\* The ProjectCode the backend's record of a project carries.
CodeOf(pid) ==
    CASE pid = "p1" -> "c1"
      [] pid = "p2" -> "c2"
      [] pid = "p3" -> "c3"
      [] pid = "p4" -> "c4"
      [] pid = "p5" -> "c5"
      [] OTHER      -> "c6"

\* Codes the user may ask for: those of the projects, and one no project has.
ProjectCodes == {CodeOf(pid) : pid \in ProjectIdSet} \cup {"c0"}

\* node.get('ProjectCode'): the value under that key, None when the dict
\* has no such key.
GetProjectCode(h, ref) ==
    IF "ProjectCode" \in DictKeys(ref) THEN CodeOf(ref) ELSE None

\* search_recursive(node): the node itself when its ProjectCode is the one
\* asked for, else the first hit among node.get('children', []), else None.
RECURSIVE SearchRecursive(_, _, _)
RECURSIVE SearchAmong(_, _, _, _)
SearchRecursive(h, ref, pcode) ==
    IF GetProjectCode(h, ref) = pcode THEN ref
    ELSE SearchAmong(h, GetChildren(h, ref), 1, pcode)

SearchAmong(h, kids, i, pcode) ==
    IF i > Len(kids) THEN None
    ELSE LET result == SearchRecursive(h, kids[i], pcode)
         IN  IF result # None THEN result ELSE SearchAmong(h, kids, i + 1, pcode)

\* _find_project_by_code(hierarchy, project_code)
FindProjectByCode(h, pcode) == SearchRecursive(h, HierarchyRef, pcode)

\* main has not looked a project up yet.
FindInit ==
    /\ TreeInit
    /\ project_code = None
    /\ target_project = None
    /\ exit_status = "running"

\* main: target_project = _find_project_by_code(hierarchy, args.project_code);
\* "if not target_project:" print the error and the known codes and
\* sys.exit(1).
FindTargetProject ==
    /\ tree_pc = "built"
    /\ exit_status = "running"
    /\ \E pcode \in ProjectCodes :
          /\ project_code' = pcode
          /\ target_project' = FindProjectByCode(hierarchy, pcode)
          /\ exit_status' = IF FindProjectByCode(hierarchy, pcode) = None
                            THEN "exit1" ELSE "goes_on"
    /\ UNCHANGED treeVars
    /\ UNCHANGED notFindVars

\* main: client.get_project_hierarchy(), then the lookup.
FindNext ==
    \/ ReceiveProject
    \/ GetProjectHierarchy
    \/ FindTargetProject

\* main is not looking a project up (used by the other specifications).
FindIdle ==
    /\ project_code = None
    /\ target_project = None
    /\ exit_status = "running"

(* ----------------------------- C26 ------------------------------------- *)

\* The projects of the hierarchy whose record carries the code asked for.
CarryingCode == {pid \in AllProjects(hierarchy) : CodeOf(pid) = project_code}

InitFetch == FetchInit /\ TreeIdle /\ StoreIdle /\ CallIdle /\ AuthIdle /\ SumIdle /\ RefreshIdle /\ SaveIdle /\ EnsureIdle /\ QueryIdle /\ FindIdle

SpecFetch == InitFetch /\ [][FetchNext]_vars

\* get_project_hierarchy followed by _get_project_and_subproject_ids.
InitTree == TreeInit /\ FetchIdle /\ StoreIdle /\ CallIdle /\ AuthIdle /\ SumIdle /\ RefreshIdle /\ SaveIdle /\ EnsureIdle /\ QueryIdle /\ FindIdle

SpecTree == InitTree /\ [][TreeNext]_vars

\* Saves and loads of the token file by the helper and the client.
InitStore == StoreInit /\ FetchIdle /\ TreeIdle /\ CallIdle /\ AuthIdle /\ SumIdle /\ RefreshIdle /\ SaveIdle /\ EnsureIdle /\ QueryIdle /\ FindIdle

SpecStore == InitStore /\ [][StoreNext]_vars

\* One call of test_company_info or of _make_request.
InitCall == CallInit /\ FetchIdle /\ TreeIdle /\ AuthIdle /\ SumIdle /\ RefreshIdle /\ SaveIdle /\ EnsureIdle /\ QueryIdle /\ FindIdle

SpecCall == InitCall /\ [][CallNext]_vars

\* One run of authenticate(): the caller, the serve thread, the handler
\* threads and the requests that arrive.
InitAuth == AuthInit /\ FetchIdle /\ TreeIdle /\ CallIdle /\ SumIdle /\ RefreshIdle /\ SaveIdle /\ EnsureIdle /\ QueryIdle /\ FindIdle

SpecAuth == InitAuth /\ [][AuthNext]_vars

\* One run of authenticate() in which the calling thread keeps running; a
\* record was saved before.
InitAuthLive == AuthInit /\ token_file.kind = "object" /\ FetchIdle /\ TreeIdle /\ CallIdle /\ SumIdle /\ RefreshIdle /\ SaveIdle /\ EnsureIdle /\ QueryIdle /\ FindIdle

SpecAuthLive == InitAuthLive /\ [][AuthNext]_vars /\ WF_vars(CallerStep)

\* authenticate() called again, on the same helper or in a new program run.
InitAuthRuns == AuthInit /\ FetchIdle /\ TreeIdle /\ CallIdle /\ SumIdle /\ RefreshIdle /\ SaveIdle /\ EnsureIdle /\ QueryIdle /\ FindIdle

SpecAuthRuns == InitAuthRuns /\ [][AuthRunsNext]_vars

\* get_project_expenses_summary against a backend holding a few Purchases.
InitSum == SumInit /\ FetchIdle /\ TreeIdle /\ StoreIdle /\ CallIdle /\ AuthIdle /\ RefreshIdle /\ SaveIdle /\ EnsureIdle /\ QueryIdle /\ FindIdle

SpecSum == InitSum /\ [][SumNext]_vars

\* refresh_tokens() called up to MaxRefreshes times on one token file.
InitRefresh ==
    RefreshInit /\ FetchIdle /\ TreeIdle /\ CallIdle /\ AuthIdle /\ SumIdle /\ SaveIdle /\ EnsureIdle /\ QueryIdle /\ FindIdle

SpecRefresh == InitRefresh /\ [][RefreshNext]_vars

\* _save_tokens called up to MaxSaves times, a reader reading when it likes.
InitSave ==
    /\ SaveInit /\ FetchIdle /\ TreeIdle /\ CallIdle /\ AuthIdle /\ SumIdle
    /\ RefreshIdle /\ EnsureIdle /\ QueryIdle /\ FindIdle

SpecSave == InitSave /\ [][SaveNext]_vars

\* ensure_access_token() called while the stored access token grows old.
InitEnsure ==
    /\ EnsureInit /\ FetchIdle /\ TreeIdle /\ CallIdle /\ AuthIdle /\ SumIdle
    /\ RefreshIdle /\ SaveIdle /\ QueryIdle /\ FindIdle

SpecEnsure == InitEnsure /\ [][EnsureNext]_vars

\* get_expenses building its query for every choice of arguments.
InitQuery ==
    /\ QueryInit /\ FetchIdle /\ TreeIdle /\ StoreIdle /\ CallIdle /\ AuthIdle
    /\ SumIdle /\ RefreshIdle /\ SaveIdle /\ EnsureIdle /\ FindIdle

SpecQuery == InitQuery /\ [][QueryNext]_vars

\* main up to the lookup of the project by its code.
InitFind ==
    /\ FindInit /\ FetchIdle /\ StoreIdle /\ CallIdle /\ AuthIdle /\ SumIdle
    /\ RefreshIdle /\ SaveIdle /\ EnsureIdle /\ QueryIdle

SpecFind == InitFind /\ [][FindNext]_vars

====
